---- MODULE Spec2Model ----
(***************************************************************************)
(* Nutrition estimation core of ai-fasting-planner:                        *)
(*   - USDAAPIService  (src/src/usdaApi.ts): rate-limited HTTP client,     *)
(*     failure classification, best-match search and candidate ranking;    *)
(*   - NutritionCalculator (src/src/waitingExperience.ts): ingredient      *)
(*     parsing, unit conversion, per-ingredient nutrition with fallback,   *)
(*     batched per-meal and per-plan aggregation.                          *)
(*                                                                         *)
(* Texts are sequences of one-character strings, so that the string        *)
(* operations of the source (trim, toLowerCase, includes, the regular      *)
(* expressions) are computed character by character.  Numbers that the     *)
(* source holds as floating-point values are exact rationals <<n, d>>.     *)
(***************************************************************************)
EXTENDS Integers, Sequences, FiniteSets, TLC

(***************************************************************************)
(* Exact rational arithmetic: <<n, d>> with d > 0, in lowest terms.        *)
(***************************************************************************)
RECURSIVE Gcd(_, _)
Gcd(a, b) ==
    IF b = 0 THEN a ELSE Gcd(b, a % b)

Abs(a) ==
    IF a < 0 THEN -a ELSE a

RNorm(n, d) ==
    LET g == Gcd(Abs(n), Abs(d))
        s == IF d < 0 THEN -1 ELSE 1
    IN  <<(s * n) \div g, (s * d) \div g>>

RInt(k) ==
    <<k, 1>>

RZero ==
    <<0, 1>>

RAdd(a, b) ==
    RNorm(a[1] * b[2] + b[1] * a[2], a[2] * b[2])

RMul(a, b) ==
    RNorm(a[1] * b[1], a[2] * b[2])

RDiv(a, b) ==
    RNorm(a[1] * b[2], a[2] * b[1])

RLess(a, b) ==
    a[1] * b[2] < b[1] * a[2]

RMin(a, b) ==
    IF RLess(b, a) THEN b ELSE a

RMax(a, b) ==
    IF RLess(a, b) THEN b ELSE a

\* Math.round: the nearest integer, halves rounded towards +infinity.
MathRound(a) ==
    RInt((2 * a[1] + a[2]) \div (2 * a[2]))

(***************************************************************************)
(* Characters and the string operations of the source.                     *)
(***************************************************************************)
Digits ==
    {"0", "1", "2", "3", "4", "5", "6", "7", "8", "9"}

DigitVal ==
    ("0" :> 0) @@ ("1" :> 1) @@ ("2" :> 2) @@ ("3" :> 3) @@ ("4" :> 4) @@
    ("5" :> 5) @@ ("6" :> 6) @@ ("7" :> 7) @@ ("8" :> 8) @@ ("9" :> 9)

\* \s of the regular expressions, and the characters trim() strips.
WhiteSpace ==
    {" ", "\t"}

UpperToLower ==
    ("A" :> "a") @@ ("B" :> "b") @@ ("C" :> "c") @@ ("D" :> "d") @@ ("E" :> "e") @@
    ("F" :> "f") @@ ("G" :> "g") @@ ("H" :> "h") @@ ("I" :> "i") @@ ("J" :> "j") @@
    ("K" :> "k") @@ ("L" :> "l") @@ ("M" :> "m") @@ ("N" :> "n") @@ ("O" :> "o") @@
    ("P" :> "p") @@ ("Q" :> "q") @@ ("R" :> "r") @@ ("S" :> "s") @@ ("T" :> "t") @@
    ("U" :> "u") @@ ("V" :> "v") @@ ("W" :> "w") @@ ("X" :> "x") @@ ("Y" :> "y") @@
    ("Z" :> "z")

\* \w of the regular expressions (the characters between which \b does not match).
WordChars ==
    DOMAIN UpperToLower \cup {UpperToLower[c] : c \in DOMAIN UpperToLower}
        \cup Digits \cup {"_"}

ToLowerCase(s) ==
    [i \in 1..Len(s) |-> IF s[i] \in DOMAIN UpperToLower THEN UpperToLower[s[i]] ELSE s[i]]

\* s.substring(i - 1): the suffix of s that starts at (1-based) position i.
Suffix(s, i) ==
    SubSeq(s, i, Len(s))

\* sub occurs in s at position i.
MatchAt(s, sub, i) ==
    /\ i >= 1
    /\ i + Len(sub) - 1 <= Len(s)
    /\ SubSeq(s, i, i + Len(sub) - 1) = sub

\* String.prototype.includes
Includes(s, sub) ==
    \E i \in 1..(Len(s) + 1) : MatchAt(s, sub, i)

\* The first position >= i of s whose character is not in the set cs (Len(s) + 1 if none).
RECURSIVE SkipRun(_, _, _)
SkipRun(s, cs, i) ==
    IF i <= Len(s) /\ s[i] \in cs THEN SkipRun(s, cs, i + 1) ELSE i

\* The last position <= i of s whose character is not whitespace (0 if none).
RECURSIVE SkipBack(_, _)
SkipBack(s, i) ==
    IF i >= 1 /\ s[i] \in WhiteSpace THEN SkipBack(s, i - 1) ELSE i

\* String.prototype.trim
Trim(s) ==
    SubSeq(s, SkipRun(s, WhiteSpace, 1), SkipBack(s, Len(s)))

\* The first position >= i of s that holds the character c (0 if none).
RECURSIVE IndexOfChar(_, _, _)
IndexOfChar(s, c, i) ==
    IF i > Len(s) THEN 0
    ELSE IF s[i] = c THEN i
    ELSE IndexOfChar(s, c, i + 1)

\* s.replace(/\s*\([^)]*\)/g, ''): every parenthetical clause, with the
\* whitespace before it, is removed; scanning resumes after each match.
RECURSIVE RemoveParensFrom(_, _)
RemoveParensFrom(s, i) ==
    IF i > Len(s) THEN <<>>
    ELSE LET open  == SkipRun(s, WhiteSpace, i)
             close == IF open <= Len(s) /\ s[open] = "("
                      THEN IndexOfChar(s, ")", open + 1)
                      ELSE 0
         IN  IF close > 0
             THEN RemoveParensFrom(s, close + 1)
             ELSE <<s[i]>> \o RemoveParensFrom(s, i + 1)

RemoveParens(s) ==
    RemoveParensFrom(s, 1)

\* s.replace(/\s*,\s*$/, ''): a comma that ends the text (whitespace around it included) is removed.
RemoveTrailingComma(s) ==
    LET last == SkipBack(s, Len(s))
    IN  IF last >= 1 /\ s[last] = ","
        THEN SubSeq(s, 1, SkipBack(s, last - 1))
        ELSE s

\* s.replace(/\s*,\s*/g, ' '): every comma, with the whitespace around it, becomes one space.
RECURSIVE ReplaceCommasFrom(_, _)
ReplaceCommasFrom(s, i) ==
    IF i > Len(s) THEN <<>>
    ELSE LET comma == SkipRun(s, WhiteSpace, i)
         IN  IF comma <= Len(s) /\ s[comma] = ","
             THEN <<" ">> \o ReplaceCommasFrom(s, SkipRun(s, WhiteSpace, comma + 1))
             ELSE <<s[i]>> \o ReplaceCommasFrom(s, i + 1)

ReplaceCommas(s) ==
    ReplaceCommasFrom(s, 1)

\* s.replace(/\s+/g, ' '): every run of whitespace becomes one space.
RECURSIVE CollapseSpacesFrom(_, _)
CollapseSpacesFrom(s, i) ==
    IF i > Len(s) THEN <<>>
    ELSE IF s[i] \in WhiteSpace
         THEN <<" ">> \o CollapseSpacesFrom(s, SkipRun(s, WhiteSpace, i))
         ELSE <<s[i]>> \o CollapseSpacesFrom(s, i + 1)

CollapseSpaces(s) ==
    CollapseSpacesFrom(s, 1)

\* \b holds between positions i - 1 and i of s.
WordBoundary(s, i) ==
    LET before == i - 1 >= 1 /\ i - 1 <= Len(s) /\ s[i - 1] \in WordChars
        after  == i >= 1 /\ i <= Len(s) /\ s[i] \in WordChars
    IN  before # after

\* s.replace(new RegExp(`\\b${w}\\b`, 'gi'), ''): every whole-word occurrence
\* of w is removed, left to right, without overlap (s is already lower case
\* where the source applies it, so the 'i' flag changes nothing).
RECURSIVE RemoveWordFrom(_, _, _)
RemoveWordFrom(s, w, i) ==
    IF i > Len(s) THEN <<>>
    ELSE IF /\ MatchAt(s, w, i)
            /\ WordBoundary(s, i)
            /\ WordBoundary(s, i + Len(w))
         THEN RemoveWordFrom(s, w, i + Len(w))
         ELSE <<s[i]>> \o RemoveWordFrom(s, w, i + 1)

RemoveWord(s, w) ==
    RemoveWordFrom(s, w, 1)

\* The first position >= i of s whose character is whitespace (Len(s) + 1 if none).
RECURSIVE NextSpace(_, _)
NextSpace(s, i) ==
    IF i <= Len(s) /\ s[i] \notin WhiteSpace THEN NextSpace(s, i + 1) ELSE i

\* s.split(/\s+/)
RECURSIVE SplitSpacesFrom(_, _)
SplitSpacesFrom(s, i) ==
    LET e == NextSpace(s, i)
    IN  IF e > Len(s) THEN <<SubSeq(s, i, Len(s))>>
        ELSE <<SubSeq(s, i, e - 1)>> \o SplitSpacesFrom(s, SkipRun(s, WhiteSpace, e))

SplitSpaces(s) ==
    SplitSpacesFrom(s, 1)

RECURSIVE Pow10(_)
Pow10(k) ==
    IF k = 0 THEN 1 ELSE 10 * Pow10(k - 1)

\* The value of a run of decimal digits (0 for the empty run).
RECURSIVE IntVal(_)
IntVal(s) ==
    IF Len(s) = 0 THEN 0
    ELSE 10 * IntVal(SubSeq(s, 1, Len(s) - 1)) + DigitVal[s[Len(s)]]

\* Number(s) and parseFloat(s) for the texts the quantity pattern lets through:
\* digits with an optional fractional part.
DecimalValue(s) ==
    LET dot == IndexOfChar(s, ".", 1)
    IN  IF dot = 0 THEN RInt(IntVal(s))
        ELSE RAdd(RInt(IntVal(SubSeq(s, 1, dot - 1))),
                  RNorm(IntVal(Suffix(s, dot + 1)), Pow10(Len(s) - dot)))

(***************************************************************************)
(* The string literals of NutritionCalculator, as character sequences.     *)
(***************************************************************************)
Word ==
    [to_taste |-> <<"t","o"," ","t","a","s","t","e">>,
     pinch |-> <<"p","i","n","c","h">>,
     dash |-> <<"d","a","s","h">>,
     unit |-> <<"u","n","i","t">>,
     egg |-> <<"e","g","g">>,
     apple |-> <<"a","p","p","l","e">>,
     orange |-> <<"o","r","a","n","g","e">>,
     banana |-> <<"b","a","n","a","n","a">>,
     avocado |-> <<"a","v","o","c","a","d","o">>,
     cucumber |-> <<"c","u","c","u","m","b","e","r">>,
     clove_garlic |-> <<"c","l","o","v","e"," ","g","a","r","l","i","c">>,
     garlic_clove |-> <<"g","a","r","l","i","c"," ","c","l","o","v","e">>,
     lemon |-> <<"l","e","m","o","n">>,
     lime |-> <<"l","i","m","e">>,
     oil |-> <<"o","i","l">>,
     olive_oil |-> <<"o","l","i","v","e"," ","o","i","l">>,
     honey |-> <<"h","o","n","e","y">>,
     syrup |-> <<"s","y","r","u","p">>,
     maple_syrup |-> <<"m","a","p","l","e"," ","s","y","r","u","p">>,
     milk |-> <<"m","i","l","k">>,
     cream |-> <<"c","r","e","a","m">>,
     yogurt |-> <<"y","o","g","u","r","t">>,
     spinach |-> <<"s","p","i","n","a","c","h">>,
     lettuce |-> <<"l","e","t","t","u","c","e">>,
     greens |-> <<"g","r","e","e","n","s">>,
     mushroom |-> <<"m","u","s","h","r","o","o","m">>,
     onion |-> <<"o","n","i","o","n">>,
     chicken |-> <<"c","h","i","c","k","e","n">>,
     beef |-> <<"b","e","e","f">>,
     pork |-> <<"p","o","r","k">>,
     cheese |-> <<"c","h","e","e","s","e">>]

\* The string literals of USDAAPIService.filterAndRankFoods.
RankWord ==
    [avocado |-> <<"a","v","o","c","a","d","o">>,
     fruit |-> <<"f","r","u","i","t">>,
     vegetable |-> <<"v","e","g","e","t","a","b","l","e">>,
     raw |-> <<"r","a","w">>,
     oil |-> <<"o","i","l">>,
     olive |-> <<"o","l","i","v","e">>,
     coconut |-> <<"c","o","c","o","n","u","t">>,
     dressing |-> <<"d","r","e","s","s","i","n","g">>,
     spread |-> <<"s","p","r","e","a","d">>,
     dip |-> <<"d","i","p">>,
     sauce |-> <<"s","a","u","c","e">>]

descriptorsToRemove ==
    << <<"s","l","i","c","e","d">>,
       <<"d","i","c","e","d">>,
       <<"c","h","o","p","p","e","d">>,
       <<"m","i","n","c","e","d">>,
       <<"g","r","a","t","e","d">>,
       <<"s","h","r","e","d","d","e","d">>,
       <<"c","r","u","s","h","e","d">>,
       <<"g","r","o","u","n","d">>,
       <<"p","o","w","d","e","r","e","d">>,
       <<"f","r","e","s","h">>,
       <<"f","r","o","z","e","n">>,
       <<"c","a","n","n","e","d">>,
       <<"d","r","i","e","d">>,
       <<"r","a","w">>,
       <<"c","o","o","k","e","d">>,
       <<"r","o","a","s","t","e","d">>,
       <<"b","a","k","e","d">>,
       <<"f","r","i","e","d">>,
       <<"g","r","i","l","l","e","d">>,
       <<"s","t","e","a","m","e","d">>,
       <<"b","o","n","e","l","e","s","s">>,
       <<"s","k","i","n","l","e","s","s">>,
       <<"w","i","t","h"," ","s","k","i","n">>,
       <<"p","e","e","l","e","d">> >>

\* toGrams: 28.35 = 567/20, 453.59 = 45359/100.
unitConversions ==
    (<<"g">> :> [toGrams |-> <<1, 1>>, type |-> "weight"]) @@
    (<<"g","r","a","m">> :> [toGrams |-> <<1, 1>>, type |-> "weight"]) @@
    (<<"g","r","a","m","s">> :> [toGrams |-> <<1, 1>>, type |-> "weight"]) @@
    (<<"k","g">> :> [toGrams |-> <<1000, 1>>, type |-> "weight"]) @@
    (<<"k","i","l","o","g","r","a","m">> :> [toGrams |-> <<1000, 1>>, type |-> "weight"]) @@
    (<<"k","i","l","o","g","r","a","m","s">> :> [toGrams |-> <<1000, 1>>, type |-> "weight"]) @@
    (<<"o","z">> :> [toGrams |-> <<567, 20>>, type |-> "weight"]) @@
    (<<"o","u","n","c","e">> :> [toGrams |-> <<567, 20>>, type |-> "weight"]) @@
    (<<"o","u","n","c","e","s">> :> [toGrams |-> <<567, 20>>, type |-> "weight"]) @@
    (<<"l","b">> :> [toGrams |-> <<45359, 100>>, type |-> "weight"]) @@
    (<<"p","o","u","n","d">> :> [toGrams |-> <<45359, 100>>, type |-> "weight"]) @@
    (<<"p","o","u","n","d","s">> :> [toGrams |-> <<45359, 100>>, type |-> "weight"]) @@
    (<<"c","u","p">> :> [toGrams |-> <<240, 1>>, type |-> "volume"]) @@
    (<<"c","u","p","s">> :> [toGrams |-> <<240, 1>>, type |-> "volume"]) @@
    (<<"c">> :> [toGrams |-> <<240, 1>>, type |-> "volume"]) @@
    (<<"t","b","s","p">> :> [toGrams |-> <<15, 1>>, type |-> "volume"]) @@
    (<<"t","a","b","l","e","s","p","o","o","n">> :> [toGrams |-> <<15, 1>>, type |-> "volume"]) @@
    (<<"t","a","b","l","e","s","p","o","o","n","s">> :> [toGrams |-> <<15, 1>>, type |-> "volume"]) @@
    (<<"t","s","p">> :> [toGrams |-> <<5, 1>>, type |-> "volume"]) @@
    (<<"t","e","a","s","p","o","o","n">> :> [toGrams |-> <<5, 1>>, type |-> "volume"]) @@
    (<<"t","e","a","s","p","o","o","n","s">> :> [toGrams |-> <<5, 1>>, type |-> "volume"]) @@
    (<<"m","l">> :> [toGrams |-> <<1, 1>>, type |-> "volume"]) @@
    (<<"m","i","l","l","i","l","i","t","e","r">> :> [toGrams |-> <<1, 1>>, type |-> "volume"]) @@
    (<<"m","i","l","l","i","l","i","t","e","r","s">> :> [toGrams |-> <<1, 1>>, type |-> "volume"]) @@
    (<<"l">> :> [toGrams |-> <<1000, 1>>, type |-> "volume"]) @@
    (<<"l","i","t","e","r">> :> [toGrams |-> <<1000, 1>>, type |-> "volume"]) @@
    (<<"l","i","t","e","r","s">> :> [toGrams |-> <<1000, 1>>, type |-> "volume"])

\* The keys of the unit table together with two dotted abbreviations.
validUnitsWithAbbreviations ==
    DOMAIN unitConversions \cup {<<"c", ".">>, <<"l", "b", ".">>}

validUnits ==
    DOMAIN unitConversions

(***************************************************************************)
(* NutritionCalculator: parsing one ingredient line.                       *)
(***************************************************************************)
\* The position after a fraction \d+\/\d+ that starts at position i of s (0 if there is none).
FractionEnd(s, i) ==
    LET slash == SkipRun(s, Digits, i)
        stop  == SkipRun(s, Digits, slash + 1)
    IN  IF slash > i /\ slash <= Len(s) /\ s[slash] = "/" /\ stop > slash + 1
        THEN stop
        ELSE 0

\* The position after an optional fractional part (?:\.\d+)? that starts at position i of s.
OptionalDecimalsEnd(s, i) ==
    LET stop == SkipRun(s, Digits, i + 1)
    IN  IF i <= Len(s) /\ s[i] = "." /\ stop > i + 1 THEN stop ELSE i

\* text.match(/^(\d+\/\d+|\d+(?:\s+\d+\/\d+)(?:\.\d+)?|\d+(?:\.\d+)|\d+)/): the length
\* of the match of the first alternative that matches at the start (0: no match).
QuantityMatchLen(text) ==
    LET whole   == SkipRun(text, Digits, 1)
        gap     == SkipRun(text, WhiteSpace, whole)
        bare    == FractionEnd(text, 1)
        mixed   == IF whole > 1 /\ gap > whole THEN FractionEnd(text, gap) ELSE 0
        decimal == OptionalDecimalsEnd(text, whole)
    IN  IF bare > 0 THEN bare - 1
        ELSE IF mixed > 0 THEN OptionalDecimalsEnd(text, mixed) - 1
        ELSE IF whole > 1 /\ decimal > whole THEN decimal - 1
        ELSE IF whole > 1 THEN whole - 1
        ELSE 0

\* One part of the quantity text: a fraction numerator/denominator (a zero
\* denominator contributes nothing), or a whole number or decimal.
QuantityPart(part) ==
    LET slash       == IndexOfChar(part, "/", 1)
        rest        == Suffix(part, slash + 1)
        slash2      == IndexOfChar(rest, "/", 1)
        numerator   == DecimalValue(SubSeq(part, 1, slash - 1))
        denominator == DecimalValue(IF slash2 = 0 THEN rest ELSE SubSeq(rest, 1, slash2 - 1))
    IN  IF slash > 0
        THEN IF denominator # RZero THEN RDiv(numerator, denominator) ELSE RZero
        ELSE DecimalValue(part)

RECURSIVE SumQuantityParts(_, _)
SumQuantityParts(parts, k) ==
    IF k > Len(parts) THEN RZero
    ELSE RAdd(QuantityPart(parts[k]), SumQuantityParts(parts, k + 1))

parseQuantity(quantityStr) ==
    SumQuantityParts(SplitSpaces(quantityStr), 1)

\* The loop over descriptorsToRemove, from the k-th descriptor on.
RECURSIVE RemoveDescriptors(_, _)
RemoveDescriptors(s, k) ==
    IF k > Len(descriptorsToRemove) THEN s
    ELSE CHOOSE r \in {RemoveDescriptors(t, k + 1) :
                          t \in {RemoveWord(s, descriptorsToRemove[k])}} : TRUE

cleanIngredientName(ingredient) ==
    LET cleaned == Trim(CollapseSpaces(ReplaceCommas(
                       RemoveDescriptors(ToLowerCase(ingredient), 1))))
    IN  IF cleaned # <<>> THEN cleaned ELSE ingredient

\* The qualitative-amount test without its "dash" alternative.
IsToTasteNoDash(text) ==
    \/ Includes(text, Word.to_taste)
    \/ Includes(text, Word.pinch)

IsToTaste(text) ==
    \/ Includes(text, Word.to_taste)
    \/ Includes(text, Word.pinch)
    \/ Includes(text, Word.dash)

parseIngredient(ingredientText) ==
    LET text          == ToLowerCase(Trim(ingredientText))
        matchLen      == QuantityMatchLen(text)
        quantityStr   == SubSeq(text, 1, matchLen)
        remaining     == Trim(Suffix(text, matchLen + 1))
        words         == SplitSpaces(remaining)
        potentialUnit == ToLowerCase(words[1])
        hasUnit       == potentialUnit \in validUnits
        ingredient    == IF hasUnit
                         THEN Trim(Suffix(remaining, Len(words[1]) + 1))
                         ELSE remaining
    IN  IF IsToTaste(text)
        THEN [quantity   |-> RZero,
              unit       |-> Word.to_taste,
              ingredient |-> Trim(RemoveParens(ingredientText)),
              original   |-> ingredientText]
        ELSE IF matchLen = 0
        THEN [quantity   |-> RInt(1),
              unit       |-> Word.unit,
              ingredient |-> cleanIngredientName(Trim(RemoveParens(ingredientText))),
              original   |-> ingredientText]
        ELSE [quantity   |-> parseQuantity(quantityStr),
              unit       |-> IF hasUnit THEN potentialUnit ELSE Word.unit,
              ingredient |-> cleanIngredientName(
                                 Trim(RemoveTrailingComma(RemoveParens(ingredient)))),
              original   |-> ingredientText]

(***************************************************************************)
(* NutritionCalculator: conversion to grams.                               *)
(***************************************************************************)
getUnitlessIngredientGrams(quantity, ingredient) ==
    LET ingredientLower == ToLowerCase(ingredient)
    IN  IF Includes(ingredientLower, Word.egg)
        THEN RMul(quantity, RInt(50))
        ELSE IF Includes(ingredientLower, Word.apple) \/ Includes(ingredientLower, Word.orange)
        THEN RMul(quantity, RInt(150))
        ELSE IF Includes(ingredientLower, Word.banana)
        THEN RMul(quantity, RInt(120))
        ELSE IF Includes(ingredientLower, Word.avocado)
        THEN RMul(quantity, RInt(150))
        ELSE IF Includes(ingredientLower, Word.cucumber)
        THEN RMul(quantity, RInt(300))
        ELSE IF \/ Includes(ingredientLower, Word.clove_garlic)
                \/ Includes(ingredientLower, Word.garlic_clove)
        THEN RMul(quantity, RInt(3))
        ELSE IF Includes(ingredientLower, Word.lemon) \/ Includes(ingredientLower, Word.lime)
        THEN RMul(quantity, RInt(100))
        ELSE quantity

getDensityAdjustment(ingredient, unit, defaultGrams) ==
    LET ingredientLower == ToLowerCase(ingredient)
    IN  IF Includes(ingredientLower, Word.oil) \/ Includes(ingredientLower, Word.olive_oil)
        THEN MathRound(RMul(defaultGrams, <<92, 100>>))
        ELSE IF \/ Includes(ingredientLower, Word.honey)
                \/ Includes(ingredientLower, Word.syrup)
                \/ Includes(ingredientLower, Word.maple_syrup)
        THEN MathRound(RMul(defaultGrams, <<142, 100>>))
        ELSE IF \/ Includes(ingredientLower, Word.milk)
                \/ Includes(ingredientLower, Word.cream)
                \/ Includes(ingredientLower, Word.yogurt)
        THEN MathRound(RMul(defaultGrams, <<103, 100>>))
        ELSE IF \/ Includes(ingredientLower, Word.spinach)
                \/ Includes(ingredientLower, Word.lettuce)
                \/ Includes(ingredientLower, Word.greens)
        THEN RMul(defaultGrams, <<125, 1000>>)
        ELSE IF Includes(ingredientLower, Word.mushroom) \/ Includes(ingredientLower, Word.onion)
        THEN RMul(defaultGrams, <<625, 1000>>)
        ELSE defaultGrams

\* The lower-case property names an object literal inherits from
\* Object.prototype: this.unitConversions[name] is an object for them too.
inheritedProperties ==
    {<<"c","o","n","s","t","r","u","c","t","o","r">>, <<"_","_","p","r","o","t","o","_","_">>}

\* The result of arithmetic on undefined.
NaN ==
    <<0, 0>>

\* unitInfo is the entry of the unit table or an inherited property, which has
\* neither toGrams nor type: quantity * undefined is NaN.
quantityToGrams(quantity, unit, ingredient) ==
    LET key == ToLowerCase(unit)
    IN  IF key \notin DOMAIN unitConversions \cup inheritedProperties
        THEN getUnitlessIngredientGrams(quantity, ingredient)
        ELSE IF key \in inheritedProperties
        THEN NaN
        ELSE LET unitInfo     == unitConversions[key]
                 gramsPerUnit == IF unitInfo.type = "volume"
                                 THEN getDensityAdjustment(ingredient, unit, unitInfo.toGrams)
                                 ELSE unitInfo.toGrams
             IN  RMul(quantity, gramsPerUnit)

(***************************************************************************)
(* USDAAPIService: nutrient lookup.  A food item is a record               *)
(*   [fdcId, description, score, foodNutrients]                            *)
(* whose foodNutrients is a sequence of [nutrientId, value] records.       *)
(***************************************************************************)
\* null (and undefined) where a number is expected.
Null ==
    <<>>

\* The truth value the source's && , || and ! give to a number or null: null and 0 are false.
Truthy(v) ==
    v # Null /\ v # RZero

getNutrientValue(foodNutrients, nutrientId) ==
    LET found == {i \in 1..Len(foodNutrients) : foodNutrients[i].nutrientId = nutrientId}
    IN  IF found = {} THEN Null
        ELSE foodNutrients[CHOOSE i \in found : \A j \in found : i <= j].value

getMacros(foodNutrients) ==
    [calories |-> getNutrientValue(foodNutrients, 1008),
     protein  |-> getNutrientValue(foodNutrients, 1003),
     fat      |-> getNutrientValue(foodNutrients, 1004),
     carbs    |-> getNutrientValue(foodNutrients, 1005)]

(***************************************************************************)
(* NutritionCalculator: nutrition of one parsed ingredient.                *)
(***************************************************************************)
MacroNames ==
    {"calories", "protein", "fat", "carbs"}

Nutrition(calories, protein, fat, carbs) ==
    [calories |-> calories, protein |-> protein, fat |-> fat, carbs |-> carbs]

ZeroNutrition ==
    Nutrition(RZero, RZero, RZero, RZero)

ScaleNutrition(n, scale) ==
    [k \in MacroNames |-> RMul(n[k], scale)]

\* The sum with the protein of the second operand added to the fat.
AddNutritionFatFromProtein(a, b) ==
    [k \in MacroNames |-> RAdd(a[k], IF k = "fat" THEN b["protein"] ELSE b[k])]

AddNutrition(a, b) ==
    [k \in MacroNames |-> RAdd(a[k], b[k])]

\* (v || 0)
OrZero(v) ==
    IF Truthy(v) THEN v ELSE RZero

\* The estimate scaled by the quantity as it is.
createFallbackNutritionUnclamped(parsedIngredient) ==
    LET ingredientLower == ToLowerCase(parsedIngredient.ingredient)
        fallbackNutrition ==
            IF \/ Includes(ingredientLower, Word.spinach)
               \/ Includes(ingredientLower, Word.lettuce)
               \/ Includes(ingredientLower, Word.greens)
            THEN Nutrition(RInt(25), RInt(3), RZero, RInt(4))
            ELSE IF \/ Includes(ingredientLower, Word.chicken)
                    \/ Includes(ingredientLower, Word.beef)
                    \/ Includes(ingredientLower, Word.pork)
            THEN Nutrition(RInt(250), RInt(25), RInt(15), RZero)
            ELSE IF Includes(ingredientLower, Word.olive_oil) \/ Includes(ingredientLower, Word.oil)
            THEN Nutrition(RInt(120), RZero, RInt(14), RZero)
            ELSE IF Includes(ingredientLower, Word.egg)
            THEN Nutrition(RInt(70), RInt(6), RInt(5), <<1, 2>>)
            ELSE IF Includes(ingredientLower, Word.cheese)
            THEN Nutrition(RInt(110), RInt(7), RInt(9), RInt(1))
            ELSE IF Includes(ingredientLower, Word.avocado)
            THEN Nutrition(RInt(160), RInt(2), RInt(15), RInt(9))
            ELSE Nutrition(RInt(50), RInt(2), RInt(2), RInt(5))
        scale == parsedIngredient.quantity
    IN  [ingredient |-> parsedIngredient,
         nutrition  |-> ScaleNutrition(fallbackNutrition, scale),
         confidence |-> "low",
         source     |-> "fallback"]

createFallbackNutrition(parsedIngredient) ==
    LET ingredientLower == ToLowerCase(parsedIngredient.ingredient)
        fallbackNutrition ==
            IF \/ Includes(ingredientLower, Word.spinach)
               \/ Includes(ingredientLower, Word.lettuce)
               \/ Includes(ingredientLower, Word.greens)
            THEN Nutrition(RInt(25), RInt(3), RZero, RInt(4))
            ELSE IF \/ Includes(ingredientLower, Word.chicken)
                    \/ Includes(ingredientLower, Word.beef)
                    \/ Includes(ingredientLower, Word.pork)
            THEN Nutrition(RInt(250), RInt(25), RInt(15), RZero)
            ELSE IF Includes(ingredientLower, Word.olive_oil) \/ Includes(ingredientLower, Word.oil)
            THEN Nutrition(RInt(120), RZero, RInt(14), RZero)
            ELSE IF Includes(ingredientLower, Word.egg)
            THEN Nutrition(RInt(70), RInt(6), RInt(5), <<1, 2>>)
            ELSE IF Includes(ingredientLower, Word.cheese)
            THEN Nutrition(RInt(110), RInt(7), RInt(9), RInt(1))
            ELSE IF Includes(ingredientLower, Word.avocado)
            THEN Nutrition(RInt(160), RInt(2), RInt(15), RInt(9))
            ELSE Nutrition(RInt(50), RInt(2), RInt(2), RInt(5))
        scale == RMax(<<1, 2>>, RMin(parsedIngredient.quantity, RInt(5)))
    IN  [ingredient |-> parsedIngredient,
         nutrition  |-> ScaleNutrition(fallbackNutrition, scale),
         confidence |-> "low",
         source     |-> "fallback"]

\* What a call of the matcher (USDAAPIInterface.findBestMatch) can do: resolve
\* with a food item, resolve with null, or reject.
FoodOutcome(food) ==
    [kind |-> "food", food |-> food]

NoMatchOutcome ==
    [kind |-> "none", food |-> Null]

ThrowOutcome ==
    [kind |-> "throw", food |-> Null]

\* getIngredientNutrition up to its first await: an ingredient of quantity 0
\* returns at once, any other calls the matcher.
SkipsMatcher(parsedIngredient) ==
    parsedIngredient.quantity = RZero

\* The result for quantity 0 marked as a database result.
NegligibleNutritionFromDatabase(parsedIngredient) ==
    [ingredient |-> parsedIngredient,
     nutrition  |-> ZeroNutrition,
     confidence |-> "low",
     source     |-> "usda"]

NegligibleNutrition(parsedIngredient) ==
    [ingredient |-> parsedIngredient,
     nutrition  |-> ZeroNutrition,
     confidence |-> "low",
     source     |-> "fallback"]

\* The confidence of a database result.
MatchConfidence(macros, score) ==
    LET hasAllMacros == /\ Truthy(macros.calories)
                        /\ Truthy(macros.protein)
                        /\ Truthy(macros.fat)
                        /\ Truthy(macros.carbs)
    IN  IF hasAllMacros /\ score > 50 THEN "high" ELSE "medium"

\* The try block of getIngredientNutrition from the settling of the matcher
\* call on: [threw, value].  It throws when the awaited matcher call rejects.
MatchedNutrition(parsedIngredient, outcome) ==
    LET grams       == quantityToGrams(parsedIngredient.quantity,
                                       parsedIngredient.unit,
                                       parsedIngredient.ingredient)
        foodItem    == outcome.food
        macros      == getMacros(foodItem.foodNutrients)
        scaleFactor == RDiv(grams, RInt(100))
    IN  IF outcome.kind = "throw"
        THEN [threw |-> TRUE, value |-> Null]
        ELSE IF outcome.kind = "none"
        THEN [threw |-> FALSE, value |-> createFallbackNutrition(parsedIngredient)]
        ELSE IF /\ ~Truthy(macros.calories)
                /\ ~Truthy(macros.protein)
                /\ ~Truthy(macros.fat)
                /\ ~Truthy(macros.carbs)
        THEN [threw |-> FALSE, value |-> createFallbackNutrition(parsedIngredient)]
        ELSE [threw |-> FALSE,
              value |->
                  [ingredient |-> parsedIngredient,
                   nutrition  |-> Nutrition(RMul(OrZero(macros.calories), scaleFactor),
                                            RMul(OrZero(macros.protein), scaleFactor),
                                            RMul(OrZero(macros.fat), scaleFactor),
                                            RMul(OrZero(macros.carbs), scaleFactor)),
                   confidence |-> MatchConfidence(macros, foodItem.score),
                   source     |-> "usda"]]

\* getIngredientNutrition without its catch block: an exception of the try
\* block rejects the promise.
IngredientAfterMatchNoCatch(parsedIngredient, outcome) ==
    LET body == MatchedNutrition(parsedIngredient, outcome)
    IN  IF body.threw
        THEN [rejected |-> TRUE, value |-> Null]
        ELSE [rejected |-> FALSE, value |-> body.value]

\* getIngredientNutrition from the settling of the matcher call on, as the
\* settlement of its promise: [rejected, value].  The catch block turns every
\* exception of the try block into the fallback estimate.
IngredientAfterMatch(parsedIngredient, outcome) ==
    LET body == MatchedNutrition(parsedIngredient, outcome)
    IN  IF body.threw
        THEN [rejected |-> FALSE, value |-> createFallbackNutrition(parsedIngredient)]
        ELSE [rejected |-> FALSE, value |-> body.value]

(***************************************************************************)
(* NutritionCalculator: totals and confidence of one meal.                 *)
(***************************************************************************)
RECURSIVE SumNutrition(_, _)
SumNutrition(ingredientNutritions, k) ==
    IF k > Len(ingredientNutritions) THEN ZeroNutrition
    ELSE AddNutrition(ingredientNutritions[k].nutrition,
                      SumNutrition(ingredientNutritions, k + 1))

\* The thresholds compared with >= instead of >.
ConfidenceOfInclusive(highConfidence, totalIngredients) ==
    LET isNaN == totalIngredients = 0
        ratio == RNorm(highConfidence, totalIngredients)
    IN  IF ~isNaN /\ ~RLess(ratio, <<7, 10>>) THEN "high"
        ELSE IF ~isNaN /\ ~RLess(ratio, <<4, 10>>) THEN "medium"
        ELSE "low"

\* highConfidence / totalIngredients > 0.7 selects high, > 0.4 medium, else low.
\* With no ingredient the quotient is 0 / 0 = NaN, and every comparison with NaN is false.
ConfidenceOf(highConfidence, totalIngredients) ==
    LET isNaN == totalIngredients = 0
        ratio == RNorm(highConfidence, totalIngredients)
    IN  IF ~isNaN /\ RLess(<<7, 10>>, ratio) THEN "high"
        ELSE IF ~isNaN /\ RLess(<<4, 10>>, ratio) THEN "medium"
        ELSE "low"

HighCount(confidences) ==
    Cardinality({i \in 1..Len(confidences) : confidences[i] = "high"})

\* calculateMealNutrition after its last batch: totals and overall confidence.
MealResult(ingredientNutritions) ==
    [total       |-> SumNutrition(ingredientNutritions, 1),
     ingredients |-> ingredientNutritions,
     confidence  |-> ConfidenceOf(
                         HighCount([i \in 1..Len(ingredientNutritions) |->
                                        ingredientNutritions[i].confidence]),
                         Len(ingredientNutritions))]

\* A meal without an ingredients field given the generic estimate.
EmptyMealResultEstimated ==
    [total |-> Nutrition(RInt(50), RInt(2), RInt(2), RInt(5)), ingredients |-> <<>>,
     confidence |-> "low"]

\* The result of calculateMealsNutrition for a meal without an ingredients field.
EmptyMealResult ==
    [total |-> ZeroNutrition, ingredients |-> <<>>, confidence |-> "low"]

(***************************************************************************)
(* Inputs: ingredient lines.                                               *)
(***************************************************************************)
L_Salt_to_taste ==
    <<"S","a","l","t"," ","t","o"," ","t","a","s","t","e">>

L_3_eggs ==
    <<"3"," ","e","g","g","s">>

\* The ingredient lines one call of getIngredientNutrition is tried on.
IngredientTexts ==
    {L_Salt_to_taste,
     L_3_eggs,
     \* 2 cup olive oil
     <<"2"," ","c","u","p"," ","o","l","i","v","e"," ","o","i","l">>,
     \* -2 cups stock
     <<"-","2"," ","c","u","p","s"," ","s","t","o","c","k">>,
     \* 2 cups spinach
     <<"2"," ","c","u","p","s"," ","s","p","i","n","a","c","h">>,
     \* 1 1/2 tbsp honey
     <<"1"," ","1","/","2"," ","t","b","s","p"," ","h","o","n","e","y">>,
     \* a pinch of salt (optional)
     <<"a"," ","p","i","n","c","h"," ","o","f"," ","s","a","l","t"," ","(","o","p","t","i","o","n","a","l",")">>,
     \* Dash of hot sauce
     <<"D","a","s","h"," ","o","f"," ","h","o","t"," ","s","a","u","c","e">>,
     \* 150g chicken breast
     <<"1","5","0","g"," ","c","h","i","c","k","e","n"," ","b","r","e","a","s","t">>,
     \* 2 cups mixed greens (lettuce, spinach)
     <<"2"," ","c","u","p","s"," ","m","i","x","e","d"," ","g","r","e","e","n","s"," ","(","l","e","t","t","u","c","e",","," ","s","p","i","n","a","c","h",")">>,
     \* 1/2 cucumber, sliced
     <<"1","/","2"," ","c","u","c","u","m","b","e","r",","," ","s","l","i","c","e","d">>,
     \* 1/4 avocado, sliced
     <<"1","/","4"," ","a","v","o","c","a","d","o",","," ","s","l","i","c","e","d">>,
     \* 2 tablespoons olive oil
     <<"2"," ","t","a","b","l","e","s","p","o","o","n","s"," ","o","l","i","v","e"," ","o","i","l">>,
     \* 1 tablespoon lemon juice
     <<"1"," ","t","a","b","l","e","s","p","o","o","n"," ","l","e","m","o","n"," ","j","u","i","c","e">>,
     \* salt and pepper
     <<"s","a","l","t"," ","a","n","d"," ","p","e","p","p","e","r">>,
     \* 4 oz ground beef
     <<"4"," ","o","z"," ","g","r","o","u","n","d"," ","b","e","e","f">>,
     \* 1/2 cup chopped onion
     <<"1","/","2"," ","c","u","p"," ","c","h","o","p","p","e","d"," ","o","n","i","o","n">>,
     \* 1.5 cups whole milk
     <<"1",".","5"," ","c","u","p","s"," ","w","h","o","l","e"," ","m","i","l","k">>,
     \* 2 Tbsp Butter, 
     <<"2"," ","T","b","s","p"," ","B","u","t","t","e","r",","," ">>,
     \*   3   large   eggs  
     <<" "," ","3"," "," "," ","l","a","r","g","e"," "," "," ","e","g","g","s"," "," ">>,
     \* 1/0 cup sugar
     <<"1","/","0"," ","c","u","p"," ","s","u","g","a","r">>,
     \* 1 1/2.5 cups flour
     <<"1"," ","1","/","2",".","5"," ","c","u","p","s"," ","f","l","o","u","r">>,
     \* Fresh
     <<"F","r","e","s","h">>,
     \* 1 sliced
     <<"1"," ","s","l","i","c","e","d">>,
     \* chicken with raw skin
     <<"c","h","i","c","k","e","n"," ","w","i","t","h"," ","r","a","w"," ","s","k","i","n">>,
     \* 2 radishes
     <<"2"," ","r","a","d","i","s","h","e","s">>,
     \* 0 cups water
     <<"0"," ","c","u","p","s"," ","w","a","t","e","r">>,
     \* 1 tbsp(heaped) oil
     <<"1"," ","t","b","s","p","(","h","e","a","p","e","d",")"," ","o","i","l">>,
     \* 2 (8 oz) cans tuna
     <<"2"," ","(","8"," ","o","z",")"," ","c","a","n","s"," ","t","u","n","a">>,
     \* 1 cup (packed fresh basil
     <<"1"," ","c","u","p"," ","(","p","a","c","k","e","d"," ","f","r","e","s","h"," ","b","a","s","i","l">>,
     \* 2 lb. potatoes, peeled , 
     <<"2"," ","l","b","."," ","p","o","t","a","t","o","e","s",","," ","p","e","e","l","e","d"," ",","," ">>,
     \* 10 ml OLIVE oil
     <<"1","0"," ","m","l"," ","O","L","I","V","E"," ","o","i","l">>,
     \* 3 cloves garlic, minced
     <<"3"," ","c","l","o","v","e","s"," ","g","a","r","l","i","c",","," ","m","i","n","c","e","d">>,
     \* 1 garlic clove
     <<"1"," ","g","a","r","l","i","c"," ","c","l","o","v","e">>,
     \* 2 <tab>cups<tab>rice
     <<"2"," ","\t","c","u","p","s","\t","r","i","c","e">>,
     \* 12
     <<"1","2">>,
     \* 1/2
     <<"1","/","2">>,
     \* Sliced, Diced
     <<"S","l","i","c","e","d",","," ","D","i","c","e","d">>,
     \* 2-3 cups broth
     <<"2","-","3"," ","c","u","p","s"," ","b","r","o","t","h">>,
     \* 1 l milk
     <<"1"," ","l"," ","m","i","l","k">>,
     \* 2 c. water
     <<"2"," ","c","."," ","w","a","t","e","r">>,
     \* sea salt, to taste
     <<"s","e","a"," ","s","a","l","t",","," ","t","o"," ","t","a","s","t","e">>,
     \* Pepper (to taste)
     <<"P","e","p","p","e","r"," ","(","t","o"," ","t","a","s","t","e",")">>,
     \* 1 pinch salt
     <<"1"," ","p","i","n","c","h"," ","s","a","l","t">>,
     \* 2 dashes bitters
     <<"2"," ","d","a","s","h","e","s"," ","b","i","t","t","e","r","s">>,
     \* 1 tsp radish dashi
     <<"1"," ","t","s","p"," ","r","a","d","i","s","h"," ","d","a","s","h","i">>,
     \* Pinch of nutmeg
     <<"P","i","n","c","h"," ","o","f"," ","n","u","t","m","e","g">>,
     \* 1 cup olive oil
     <<"1"," ","c","u","p"," ","o","l","i","v","e"," ","o","i","l">>,
     \* 2 cups cheddar cheese, shredded
     <<"2"," ","c","u","p","s"," ","c","h","e","d","d","a","r"," ","c","h","e","e","s","e",","," ","s","h","r","e","d","d","e","d">>,
     \* 1 lime
     <<"1"," ","l","i","m","e">>,
     \* 1 tbsp maple syrup
     <<"1"," ","t","b","s","p"," ","m","a","p","l","e"," ","s","y","r","u","p">>,
     \* 6 oz chicken
     <<"6"," ","o","z"," ","c","h","i","c","k","e","n">>,
     \* 1 cup water
     <<"1"," ","c","u","p"," ","w","a","t","e","r">>,
     \* 7 cups pork
     <<"7"," ","c","u","p","s"," ","p","o","r","k">>,
     \* 1/4 tsp sea salt
     <<"1","/","4"," ","t","s","p"," ","s","e","a"," ","s","a","l","t">>}

(***************************************************************************)
(* Inputs: rows of the composition database.                               *)
(***************************************************************************)
Nutrient(nutrientId, value) ==
    [nutrientId |-> nutrientId, value |-> value]

\* All four macros, score 100 (the "large eggs" row of test-nutrition.js).
Food_eggs ==
    [fdcId |-> 123,
     description |-> <<"E","g","g","s",","," ","l","a","r","g","e">>,
     score |-> 100,
     foodNutrients |-> <<Nutrient(1008, RInt(155)), Nutrient(1003, RInt(13)),
                         Nutrient(1004, RInt(11)), Nutrient(1005, <<11, 10>>)>>]

\* All four macros listed, protein with amount 0 (the "olive oil" row of test-nutrition.js).
Food_olive_oil ==
    [fdcId |-> 2073857,
     description |-> <<"O","L","I","V","E"," ","O","I","L">>,
     score |-> 1051,
     foodNutrients |-> <<Nutrient(1008, RInt(429)), Nutrient(1003, RZero),
                         Nutrient(1004, <<429, 10>>), Nutrient(1005, <<357, 50>>)>>]

\* All four macros, relevance score exactly 50.
Food_butter ==
    [fdcId |-> 101,
     description |-> <<"B","u","t","t","e","r",","," ","s","a","l","t","e","d">>,
     score |-> 50,
     foodNutrients |-> <<Nutrient(1008, RInt(717)), Nutrient(1003, <<9, 10>>),
                         Nutrient(1004, RInt(81)), Nutrient(1005, <<1, 10>>)>>]

\* All four macros, relevance score 51.
Food_cheese ==
    [fdcId |-> 102,
     description |-> <<"C","h","e","e","s","e",","," ","c","h","e","d","d","a","r">>,
     score |-> 51,
     foodNutrients |-> <<Nutrient(1004, RInt(33)), Nutrient(1005, <<13, 10>>),
                         Nutrient(1008, RInt(403)), Nutrient(1003, RInt(25))>>]

\* Carbohydrate missing from the nutrient list.
Food_spinach ==
    [fdcId |-> 456,
     description |-> <<"S","p","i","n","a","c","h",","," ","r","a","w">>,
     score |-> 95,
     foodNutrients |-> <<Nutrient(1008, RInt(23)), Nutrient(1003, <<29, 10>>),
                         Nutrient(1004, <<4, 10>>)>>]

\* No macro in the nutrient list.
Food_avocado_oil ==
    [fdcId |-> 789,
     description |-> <<"A","v","o","c","a","d","o"," ","o","i","l">>,
     score |-> 80,
     foodNutrients |-> <<Nutrient(1087, RInt(12))>>]

\* All four macros listed, every amount 0.
Food_water ==
    [fdcId |-> 790,
     description |-> <<"W","a","t","e","r",","," ","t","a","p">>,
     score |-> 70,
     foodNutrients |-> <<Nutrient(1008, RZero), Nutrient(1003, RZero),
                         Nutrient(1004, RZero), Nutrient(1005, RZero)>>]

Foods ==
    {Food_eggs, Food_olive_oil, Food_butter, Food_cheese, Food_spinach,
     Food_avocado_oil, Food_water}

\* Every behaviour of one matcher call.
MatcherOutcomes ==
    {FoodOutcome(f) : f \in Foods} \cup {NoMatchOutcome, ThrowOutcome}

\* The behaviours of a matcher call tried on every call of a plan.
PlanOutcomes ==
    {FoodOutcome(Food_eggs), NoMatchOutcome, ThrowOutcome}

(***************************************************************************)
(* Bounds of the plans.                                                    *)
(***************************************************************************)
\* The number of meals of a plan.
MaxMeals ==
    2

\* The number of ingredient lines of a plan, all meals together.
MaxLines ==
    4

\* The name of the meal at each position of a plan.
MealNames ==
    <<"Breakfast", "Lunch", "Dinner", "Snack", "Supper">>

\* The ingredient line at position i of a meal of a plan: an amount "to
\* taste" second, a counted ingredient everywhere else.
LineAt(i) ==
    IF i = 2 THEN L_Salt_to_taste ELSE L_3_eggs

LineLists(n) ==
    {[i \in 1..k |-> LineAt(i)] : k \in 0..n}

\* A meal is [name, hasIngredients, ingredients]; hasIngredients is FALSE for
\* a meal without the optional ingredients field.
MealsUpTo(nm, n) ==
    {[name |-> nm, hasIngredients |-> TRUE, ingredients |-> l] : l \in LineLists(n)}
    \cup {[name |-> nm, hasIngredients |-> FALSE, ingredients |-> <<>>]}

\* The plans of meals m..k that have at most n ingredient lines.
RECURSIVE PlansFrom(_, _, _)
PlansFrom(m, k, n) ==
    IF m > k THEN {<<>>}
    ELSE UNION {{<<a>> \o p : p \in PlansFrom(m + 1, k, n - Len(a.ingredients))} :
                    a \in MealsUpTo(MealNames[m], n)}

Plans ==
    UNION {PlansFrom(1, k, MaxLines) : k \in 0..MaxMeals}

\* One meal of one ingredient line.
SingleLinePlans ==
    {<<[name |-> "Breakfast", hasIngredients |-> TRUE, ingredients |-> <<t>>]>> :
        t \in IngredientTexts}

(***************************************************************************)
(* NutritionCalculator.calculateMealsNutrition / calculateMealNutrition.   *)
(* One action is one turn of the event loop: the synchronous code between  *)
(* two awaits runs without interleaving.                                   *)
(***************************************************************************)
VARIABLES
    meals,            \* the argument of calculateMealsNutrition
    planPc,           \* "idle", "running" (awaiting Promise.all), "done"
    mealRun,          \* per meal, the frame of its calculateMealNutrition call
    mealNutrition,    \* per settled meal, the MealNutrition it resolved with
    planResults,      \* the value calculateMealsNutrition resolved with
    matcherCalls,     \* history: the calls of usdaApi.findBestMatch, in order
    matcherOutcomes,  \* history: what each matcher call settled with
    outOfOrder,       \* history: a matcher call settled before an earlier call of its batch
    confidences,      \* the confidences of the ingredients of one meal
    mealConfidence,   \* the overall confidence computed for them ("none" before)
    now,              \* Date.now()
    lastRequestTime,  \* USDAAPIService.lastRequestTime
    calls,            \* the frames of the calls made on the client, in call order
    requestLog,       \* history: the outbound requests, in the order of their release
    args,             \* the arguments of one call of a function of the calculator or the client
    returned,         \* <<>> before the call returns, then <<the value returned>>
    experienceType,   \* the experienceType argument of handleWaitingPeriod
    type,             \* the type WaitingExperience.start switches on ("none" before start)
    waitPc,           \* the position of handleWaitingPeriod
    operationPromise, \* "notStarted", "pending", "resolved", "rejected"
    invocations,      \* history: the number of calls of asyncOperation
    interval,         \* LoadingAnimations.interval is set
    currentFrame,     \* LoadingAnimations.currentFrame
    factsTimer,       \* a setTimeout of displayRandomFacts is pending
    factIndex,        \* factIndex of displayRandomFacts
    game,             \* "none", "playing", "done"
    answered          \* the prompts of the game answered so far

planVars ==
    <<meals, planPc, mealRun, mealNutrition, planResults, matcherCalls, matcherOutcomes,
      outOfOrder>>

confidenceVars ==
    <<confidences, mealConfidence>>

clientVars ==
    <<now, lastRequestTime, calls, requestLog>>

callVars ==
    <<args, returned>>

waitingVars ==
    <<experienceType, type, waitPc, operationPromise, invocations, interval, currentFrame,
      factsTimer, factIndex, game, answered>>

vars ==
    <<planVars, confidenceVars, clientVars, callVars, waitingVars>>

\* The variables no action of the plan touches.
notPlanVars ==
    <<confidenceVars, clientVars, callVars, waitingVars>>

\* The variables the confidence computation does not touch.
notConfidenceVars ==
    <<planVars, clientVars, callVars, waitingVars>>

\* The variables no action of the client touches.
notClientVars ==
    <<planVars, confidenceVars, callVars, waitingVars>>

\* The variables a call of a single function does not touch.
notCallVars ==
    <<planVars, confidenceVars, clientVars, waitingVars>>

NoCall ==
    /\ args = <<>>
    /\ returned = <<>>

\* The variables a waiting period does not touch.
notWaitingVars ==
    <<planVars, confidenceVars, clientVars, callVars>>

\* handleWaitingPeriod is not called.
NoWaiting ==
    /\ experienceType = "random"
    /\ type = "none"
    /\ waitPc = "idle"
    /\ operationPromise = "notStarted"
    /\ invocations = 0
    /\ interval = FALSE
    /\ currentFrame = 0
    /\ factsTimer = FALSE
    /\ factIndex = 0
    /\ game = "none"
    /\ answered = 0

batchSize ==
    3

Min(a, b) ==
    IF a < b THEN a ELSE b

\* The elements of a finite set of integers, ascending.
RECURSIVE Ascending(_)
Ascending(S) ==
    IF S = {} THEN <<>>
    ELSE LET least == CHOOSE x \in S : \A y \in S : x <= y
         IN  <<least>> \o Ascending(S \ {least})

\* A slice of one ingredient more than batchSize.
BatchIndicesOfFour(parsedIngredients, i) ==
    (i + 1)..Min(i + batchSize + 1, Len(parsedIngredients))

\* parsedIngredients.slice(i, i + batchSize), as positions of parsedIngredients.
BatchIndices(parsedIngredients, i) ==
    (i + 1)..Min(i + batchSize, Len(parsedIngredients))

\* batch.map(ing => this.getIngredientNutrition(ing)): each call runs up to its
\* first await; the calls for ingredients of quantity 0 have returned already.
BatchReturned(parsedIngredients, i) ==
    [k \in {j \in BatchIndices(parsedIngredients, i) : SkipsMatcher(parsedIngredients[j])} |->
        NegligibleNutrition(parsedIngredients[k])]

\* The matcher called once per ingredient name of a list.
BatchCallsOncePerName(m, parsedIngredients, i) ==
    LET calling == Ascending({j \in BatchIndices(parsedIngredients, i) :
                                  /\ ~SkipsMatcher(parsedIngredients[j])
                                  /\ \A h \in 1..(j - 1) :
                                         parsedIngredients[h].ingredient
                                             # parsedIngredients[j].ingredient})
    IN  [c \in 1..Len(calling) |->
            [meal |-> m, index |-> calling[c], query |-> parsedIngredients[calling[c]].ingredient]]

\* ... and the other calls have each called the matcher, in input order.
BatchCalls(m, parsedIngredients, i) ==
    LET calling == Ascending({j \in BatchIndices(parsedIngredients, i) :
                                  ~SkipsMatcher(parsedIngredients[j])})
    IN  [c \in 1..Len(calling) |->
            [meal |-> m, index |-> calling[c], query |-> parsedIngredients[calling[c]].ingredient]]

\* The results of a batch collected last call first.
CollectBatchReversed(indices, batchResults) ==
    [c \in 1..Len(indices) |-> batchResults[indices[Len(indices) + 1 - c]]]

\* const batchResults = await Promise.all(batchPromises): the results in the order of the batch.
CollectBatch(indices, batchResults) ==
    [c \in 1..Len(indices) |-> batchResults[indices[c]]]

\* The frame of the async arrow function of calculateMealsNutrition for one
\* meal, after its synchronous start.
StartMeal(meal) ==
    LET parsedIngredients == [k \in 1..Len(meal.ingredients) |->
                                 parseIngredient(meal.ingredients[k])]
    IN  IF ~meal.hasIngredients \/ Len(meal.ingredients) = 0
        THEN [pc |-> "done", parsedIngredients |-> <<>>, i |-> 0,
              batchResults |-> <<>>, ingredientNutritions |-> <<>>]
        ELSE [pc |-> "batch", parsedIngredients |-> parsedIngredients, i |-> 0,
              batchResults |-> BatchReturned(parsedIngredients, 0),
              ingredientNutritions |-> <<>>]

RECURSIVE StartCalls(_, _)
StartCalls(ms, m) ==
    IF m > Len(ms) THEN <<>>
    ELSE (IF StartMeal(ms[m]).pc = "batch"
          THEN BatchCalls(m, StartMeal(ms[m]).parsedIngredients, 0)
          ELSE <<>>) \o StartCalls(ms, m + 1)

\* calculateMealsNutrition up to its await: meals.map starts every meal; a meal
\* without ingredients has its all-zero result at once, a meal with an empty
\* list runs calculateMealNutrition to its end without an await.
StartPlan ==
    /\ planPc = "idle"
    /\ planPc' = "running"
    /\ mealRun' = [m \in 1..Len(meals) |-> StartMeal(meals[m])]
    /\ mealNutrition' =
           [m \in {j \in 1..Len(meals) : StartMeal(meals[j]).pc = "done"} |->
               IF meals[m].hasIngredients THEN MealResult(<<>>) ELSE EmptyMealResult]
    /\ matcherCalls' = StartCalls(meals, 1)
    /\ UNCHANGED <<meals, planResults, matcherOutcomes, outOfOrder, notPlanVars>>

\* The matcher call of ingredient k of meal m settles with the given outcome,
\* and getIngredientNutrition runs from its await to its end.  A rejection of
\* getIngredientNutrition would reject Promise.all of the batch and with it
\* calculateMealNutrition and calculateMealsNutrition, neither of which catches.
MatcherSettle(m, k, outcome) ==
    /\ planPc = "running"
    /\ m \in 1..Len(meals)
    /\ mealRun[m].pc = "batch"
    /\ k \in BatchIndices(mealRun[m].parsedIngredients, mealRun[m].i)
    /\ k \notin DOMAIN mealRun[m].batchResults
    /\ LET settled == IngredientAfterMatch(mealRun[m].parsedIngredients[k], outcome)
       IN  IF settled.rejected
           THEN /\ mealRun' = [mealRun EXCEPT ![m].pc = "rejected"]
                /\ planPc' = "rejected"
           ELSE /\ mealRun' = [mealRun EXCEPT ![m].batchResults = (k :> settled.value) @@ @]
                /\ UNCHANGED planPc
    /\ matcherOutcomes' = (<<m, k>> :> outcome) @@ matcherOutcomes
    /\ outOfOrder' = (outOfOrder \/ \E j \in BatchIndices(mealRun[m].parsedIngredients,
                                                         mealRun[m].i) :
                                        j < k /\ j \notin DOMAIN mealRun[m].batchResults)
    /\ UNCHANGED <<meals, mealNutrition, planResults, matcherCalls, notPlanVars>>

\* Promise.all of the current batch of meal m resolves: its results are
\* appended in batch order, then the next batch starts or the meal is summed up.
BatchDone(m) ==
    LET run     == mealRun[m]
        indices == Ascending(BatchIndices(run.parsedIngredients, run.i))
        all     == run.ingredientNutritions \o CollectBatch(indices, run.batchResults)
        next    == run.i + batchSize
    IN  /\ planPc = "running"
        /\ m \in 1..Len(meals)
        /\ run.pc = "batch"
        /\ BatchIndices(run.parsedIngredients, run.i) \subseteq DOMAIN run.batchResults
        /\ IF next < Len(run.parsedIngredients)
           THEN /\ mealRun' = [mealRun EXCEPT ![m] =
                                   [run EXCEPT !.i = next,
                                               !.batchResults =
                                                   BatchReturned(run.parsedIngredients, next),
                                               !.ingredientNutritions = all]]
                /\ matcherCalls' = matcherCalls \o BatchCalls(m, run.parsedIngredients, next)
                /\ UNCHANGED mealNutrition
           ELSE /\ mealRun' = [mealRun EXCEPT ![m] =
                                   [run EXCEPT !.pc = "done",
                                               !.i = next,
                                               !.batchResults = <<>>,
                                               !.ingredientNutritions = all]]
                /\ mealNutrition' = (m :> MealResult(all)) @@ mealNutrition
                /\ UNCHANGED matcherCalls
        /\ UNCHANGED <<meals, planPc, planResults, matcherOutcomes, outOfOrder, notPlanVars>>

\* The plan resolving with the meals that have resolved, as soon as one has.
PlanDoneOnFirstMeal ==
    /\ planPc = "running"
    /\ \E m \in 1..Len(meals) : mealRun[m].pc = "done"
    /\ planPc' = "done"
    /\ planResults' = [m \in DOMAIN mealNutrition |->
                          [name |-> meals[m].name, nutrition |-> mealNutrition[m]]]
    /\ UNCHANGED <<meals, mealRun, mealNutrition, matcherCalls, matcherOutcomes, outOfOrder,
                   notPlanVars>>

\* Promise.all over the meals resolves: one entry per meal, in input order.
PlanDone ==
    /\ planPc = "running"
    /\ \A m \in 1..Len(meals) : mealRun[m].pc = "done"
    /\ planPc' = "done"
    /\ planResults' = [m \in 1..Len(meals) |->
                          [name |-> meals[m].name, nutrition |-> mealNutrition[m]]]
    /\ UNCHANGED <<meals, mealRun, mealNutrition, matcherCalls, matcherOutcomes, outOfOrder,
                   notPlanVars>>

PlanIdle ==
    /\ planPc = "idle"
    /\ mealRun = <<>>
    /\ mealNutrition = <<>>
    /\ planResults = <<>>
    /\ matcherCalls = <<>>
    /\ matcherOutcomes = <<>>
    /\ outOfOrder = FALSE

\* No meal is being aggregated.
NoPlan ==
    /\ meals = <<>>
    /\ PlanIdle

(***************************************************************************)
(* The overall confidence of a meal, on its own: the last statements of    *)
(* calculateMealNutrition applied to the confidences of its ingredients.   *)
(***************************************************************************)
\* The number of ingredients of the meal.
MaxIngredients ==
    10

ConfidenceLevels ==
    {"high", "medium", "low"}

ComputeMealConfidence ==
    /\ mealConfidence = "none"
    /\ mealConfidence' = ConfidenceOf(HighCount(confidences), Len(confidences))
    /\ UNCHANGED <<confidences, notConfidenceVars>>

NoConfidence ==
    /\ confidences = <<>>
    /\ mealConfidence = "none"

(***************************************************************************)
(* USDAAPIService (usdaApi.ts): the rate-limited composition client.       *)
(* A call is a frame of calls; one action is one turn of the event loop:   *)
(* the call up to its first suspension (StartCall), the turn of the timer  *)
(* of enforceRateLimit (Wake), the turn in which fetch settles (Respond).  *)
(* The clock is Date.now(), in milliseconds.                               *)
(***************************************************************************)
rateLimitDelayMs ==
    100

\* The milliseconds the clock advances in one step.
TickMs ==
    50

\* The words of a name given to cleanIngredientName.
MaxWords ==
    4

\* The last time of the clock.
MaxTime ==
    1300

\* The number of calls made on the client, concurrent or one after another.
MaxCalls ==
    3

\* The number of calls made on the client when every response is tried.
MaxRequests ==
    1

\* response.ok of node-fetch.
IsOk(status) ==
    status >= 200 /\ status <= 299

\* An enforceRateLimit that never suspends.
TimeToWaitNever(nowRead, last) ==
    0

\* enforceRateLimit with the clock at nowRead and lastRequestTime at last: the
\* milliseconds of the setTimeout it awaits, 0 when it does not suspend.
TimeToWait(nowRead, last) ==
    IF nowRead - last < rateLimitDelayMs
    THEN rateLimitDelayMs - (nowRead - last)
    ELSE 0

\* The message of the USDAAPIError of a response that is not ok.
ErrorMessage(status) ==
    IF status = 429 THEN "USDA API rate limit exceeded. Please wait before retrying."
    ELSE IF status = 401 THEN "Invalid USDA API key. Please check your configuration."
    ELSE IF status = 404 THEN "Food item not found in USDA database."
    ELSE "USDA API request failed"

\* new USDAAPIError(message, statusCode, response); an argument left out is <<>>.
USDAAPIError(message, statusCode, response) ==
    [name |-> "USDAAPIError", message |-> message, statusCode |-> statusCode,
     response |-> response]

\* A promise resolved with value (<<>> is null) or rejected with error.
Resolved(value) ==
    [kind |-> "resolved", value |-> value, error |-> <<>>]

Rejected(error) ==
    [kind |-> "rejected", value |-> <<>>, error |-> <<error>>]

\* What fetch settles with: a response with a status and a body that parses
\* as JSON (<<body>>) or does not (<<>>), or an exception of the transport.
HttpResponse(status, body) ==
    [kind |-> "response", status |-> status, body |-> body]

NetworkException ==
    [kind |-> "network", status |-> 0, body |-> <<>>]

\* makeRequest without the wrapping of its catch: an exception of fetch or
\* of response.json() leaves makeRequest as it was thrown.
makeRequestOutcomeNoWrap(response) ==
    IF response.kind = "network"
    THEN Rejected([name |-> "FetchError", message |-> "request failed",
                   statusCode |-> <<>>, response |-> <<>>])
    ELSE IF ~IsOk(response.status)
    THEN Rejected(USDAAPIError(ErrorMessage(response.status), <<response.status>>,
                               response.body))
    ELSE IF response.body = <<>>
    THEN Rejected([name |-> "FetchError", message |-> "invalid json response body",
                   statusCode |-> <<>>, response |-> <<>>])
    ELSE Resolved(response.body)

\* The try block of makeRequest with its catch: the promise makeRequest
\* returns once fetch has settled with response.  A 2xx response whose
\* body is not JSON makes response.json() throw, which the catch wraps.
makeRequestOutcome(response) ==
    IF response.kind = "network"
    THEN Rejected(USDAAPIError("Network error accessing USDA API", <<>>, <<>>))
    ELSE IF ~IsOk(response.status)
    THEN Rejected(USDAAPIError(ErrorMessage(response.status), <<response.status>>,
                               response.body))
    ELSE IF response.body = <<>>
    THEN Rejected(USDAAPIError("Network error accessing USDA API", <<>>, <<>>))
    ELSE Resolved(response.body)

(***************************************************************************)
(* filterAndRankFoods: the candidates by adjusted score, highest first.    *)
(***************************************************************************)
\* The adjusted score of one candidate (food.score is a number of the row).
AdjustedScore(food, ingredientQuery) ==
    LET query       == ToLowerCase(ingredientQuery)
        description == ToLowerCase(food.description)
        macros      == getMacros(food.foodNutrients)
        produce     == IF /\ \/ Includes(query, RankWord.avocado)
                             \/ Includes(query, RankWord.fruit)
                             \/ Includes(query, RankWord.vegetable)
                          /\ Includes(description, RankWord.raw)
                          /\ ~Includes(description, RankWord.oil)
                       THEN 50 ELSE 0
        oil         == IF /\ \/ Includes(query, RankWord.avocado)
                             \/ Includes(query, RankWord.olive)
                             \/ Includes(query, RankWord.coconut)
                          /\ Includes(description, RankWord.oil)
                          /\ ~Includes(query, RankWord.oil)
                       THEN -100 ELSE 0
        prepared    == IF \/ Includes(description, RankWord.dressing)
                          \/ Includes(description, RankWord.spread)
                          \/ Includes(description, RankWord.dip)
                          \/ Includes(description, RankWord.sauce)
                       THEN -30 ELSE 0
        data        == IF /\ Truthy(macros.calories) /\ Truthy(macros.protein)
                          /\ Truthy(macros.fat) /\ Truthy(macros.carbs)
                       THEN 50
                       ELSE IF /\ ~Truthy(macros.calories) /\ ~Truthy(macros.protein)
                               /\ ~Truthy(macros.fat) /\ ~Truthy(macros.carbs)
                       THEN -1000 ELSE 0
    IN  food.score + produce + oil + prepared + data

\* { ...food, adjustedScore: score }: the candidate with its adjusted score.
ScoredFood(food, ingredientQuery) ==
    [adjustedScore |-> AdjustedScore(food, ingredientQuery)] @@ food

\* ({ adjustedScore, ...food }) => food: the candidate without its adjusted score.
Unscored(scoredFood) ==
    [field \in DOMAIN scoredFood \ {"adjustedScore"} |-> scoredFood[field]]

\* A sort that puts a candidate ahead of those of equal score.
InsertAheadOfEqual(sorted, scoredFood) ==
    LET ahead == Cardinality({p \in 1..Len(sorted) :
                     sorted[p].adjustedScore > scoredFood.adjustedScore})
    IN  SubSeq(sorted, 1, ahead) \o <<scoredFood>> \o SubSeq(sorted, ahead + 1, Len(sorted))

\* Array.prototype.sort with (a, b) => b.adjustedScore - a.adjustedScore is
\* stable: a candidate goes behind every one that scores at least as high.
InsertByAdjustedScore(sorted, scoredFood) ==
    LET ahead == Cardinality({p \in 1..Len(sorted) :
                     sorted[p].adjustedScore >= scoredFood.adjustedScore})
    IN  SubSeq(sorted, 1, ahead) \o <<scoredFood>> \o SubSeq(sorted, ahead + 1, Len(sorted))

RECURSIVE SortByAdjustedScore(_, _)
SortByAdjustedScore(scoredFoods, n) ==
    IF n = 0 THEN <<>>
    ELSE CHOOSE inserted \in
             {InsertByAdjustedScore(sorted, scoredFoods[n]) :
                  sorted \in {SortByAdjustedScore(scoredFoods, n - 1)}} : TRUE

filterAndRankFoods(foods, ingredientQuery) ==
    CHOOSE ranked \in
        {[p \in 1..Len(sorted) |-> Unscored(sorted[p])] :
            sorted \in {SortByAdjustedScore(scoredFoods, Len(scoredFoods)) :
                           scoredFoods \in {[p \in 1..Len(foods) |->
                                                ScoredFood(foods[p], ingredientQuery)]}}} : TRUE

\* findBestMatch whose logging of the search results is not inside the try:
\* the TypeError of searchResults.foods.length rejects the call.
findBestMatchLoggingOutsideTry(ingredientQuery, searched, debug) ==
    IF searched.kind = "rejected" THEN Resolved(<<>>)
    ELSE LET searchResults == searched.value[1]
             hasFoods      == "foods" \in DOMAIN searchResults
         IN  IF debug /\ ~hasFoods
             THEN Rejected([name |-> "TypeError", message |-> "foods is undefined",
                            statusCode |-> <<>>, response |-> <<>>])
             ELSE IF "totalHits" \in DOMAIN searchResults /\ searchResults.totalHits = 0
             THEN Resolved(<<>>)
             ELSE IF ~hasFoods THEN Resolved(<<>>)
             ELSE LET filteredFoods ==
                          filterAndRankFoods(searchResults.foods, ingredientQuery)
                  IN  IF filteredFoods = <<>> THEN Resolved(<<>>)
                      ELSE Resolved(<<filteredFoods[1]>>)

\* findBestMatch once its searchFoods call has settled with searched; debug is
\* process.env.DEBUG_NUTRITION.  The catch turns every failure into null: the
\* rejection of searchFoods, the TypeError of searchResults.foods.length in
\* the logging of a body without foods, and the TypeError of
\* filterAndRankFoods on such a body.
findBestMatchOutcome(ingredientQuery, searched, debug) ==
    IF searched.kind = "rejected" THEN Resolved(<<>>)
    ELSE LET searchResults == searched.value[1]
             hasFoods      == "foods" \in DOMAIN searchResults
         IN  IF debug /\ ~hasFoods
             THEN Resolved(<<>>)
             ELSE IF "totalHits" \in DOMAIN searchResults /\ searchResults.totalHits = 0
             THEN Resolved(<<>>)
             ELSE IF ~hasFoods THEN Resolved(<<>>)
             ELSE LET filteredFoods ==
                          filterAndRankFoods(searchResults.foods, ingredientQuery)
                  IN  IF filteredFoods = <<>> THEN Resolved(<<>>)
                      ELSE Resolved(<<filteredFoods[1]>>)

(***************************************************************************)
(* Inputs of the client: the calls made on it and what the database        *)
(* answers.                                                                *)
(***************************************************************************)
\* All four macros (the "avocado" row of test-nutrition.js).
Food_avocado ==
    [fdcId |-> 171706,
     description |-> <<"A","v","o","c","a","d","o","s",","," ","r","a","w",","," ","C","a","l","i","f","o","r","n","i","a">>,
     score |-> 441,
     foodNutrients |-> <<Nutrient(1008, RInt(167)), Nutrient(1003, <<49, 25>>),
                         Nutrient(1004, <<77, 5>>), Nutrient(1005, <<216, 25>>)>>]

\* The JSON bodies of the database.
SearchBody(totalHits, foods) ==
    [kind |-> "search", totalHits |-> totalHits, foods |-> foods]

DetailsBody(food) ==
    [kind |-> "details", fdcId |-> food.fdcId, description |-> food.description,
     foodNutrients |-> food.foodNutrients]

ListBody(items) ==
    [kind |-> "list", items |-> items]

ErrorBody ==
    [kind |-> "error", message |-> "API_KEY_INVALID"]

\* No hit; two hits, the better one second; a hit count without rows.
SearchNoHits ==
    SearchBody(0, <<>>)

SearchTwoFoods ==
    SearchBody(2, <<Food_avocado_oil, Food_avocado>>)

SearchHitsWithoutFoods ==
    SearchBody(1, <<>>)

\* Every answer tried on a call: each status with a body that parses and
\* with one that does not, and the failure of the transport.
Responses ==
    {HttpResponse(status, <<ErrorBody>>) : status \in {401, 404, 429, 500}}
        \cup {HttpResponse(status, <<>>) : status \in {200, 401, 404, 429, 500}}
        \cup {HttpResponse(200, <<body>>) :
                  body \in {SearchNoHits, SearchTwoFoods, SearchHitsWithoutFoods,
                            DetailsBody(Food_eggs)}}
        \cup {NetworkException}

\* The answers tried on the calls of a timing scenario.
TimingResponses ==
    {HttpResponse(200, <<SearchNoHits>>), NetworkException}

\* The calls of the public methods.
Call(op, query, fdcIds) ==
    [op |-> op, query |-> query, fdcIds |-> fdcIds]

Calls ==
    {Call("searchFoods", Word.avocado, <<>>),
     Call("findBestMatch", Word.avocado, <<>>),
     Call("findBestMatch", Word.egg, <<>>),
     Call("getFoodDetails", <<>>, <<123>>),
     Call("getFoodsDetails", <<>>, <<123, 171706>>),
     Call("getFoodsDetails", <<>>, <<>>)}

\* One call of each public method, for the calls made one after another.
CallsInTurn ==
    {Call("searchFoods", Word.avocado, <<>>),
     Call("findBestMatch", Word.avocado, <<>>),
     Call("getFoodDetails", <<>>, <<123>>),
     Call("getFoodsDetails", <<>>, <<123, 171706>>)}

\* The calls of the matcher, as getIngredientNutrition makes them.
MatcherCallsOfBatch ==
    {Call("findBestMatch", Word.avocado, <<>>)}

\* The endpoint a call passes to makeRequest.
Endpoint(call) ==
    IF call.op \in {"searchFoods", "findBestMatch"} THEN "/foods/search"
    ELSE IF call.op = "getFoodDetails" THEN "/food/{fdcId}"
    ELSE "/foods"

\* getFoodsDetails returns [] for an empty list, before makeRequest.
ReturnsWithoutRequest(call) ==
    call.op = "getFoodsDetails" /\ call.fdcIds = <<>>

\* The promise a call returns once fetch has settled with response.
CallOutcome(call, response) ==
    IF call.op = "findBestMatch"
    THEN findBestMatchOutcome(call.query, makeRequestOutcome(response), FALSE)
    ELSE makeRequestOutcome(response)

\* The frame of a call: the local now of enforceRateLimit (startedAt), the
\* time its timer is due (wakeAt, 0 without timer), what fetch settled with
\* and the promise returned (<<>> while pending).
Frame(call, pc, startedAt, wakeAt, response, result) ==
    [call |-> call, pc |-> pc, startedAt |-> startedAt, wakeAt |-> wakeAt,
     response |-> response, result |-> result]

\* fetch(url): one outbound request of call c, released at time.
IssueRequest(log, c, endpoint, time) ==
    Append(log, [call |-> c, endpoint |-> endpoint, time |-> time])

\* Every call made so far has settled.
AllSettled ==
    \A c \in 1..Len(calls) : calls[c].pc = "done"

\* A public method is called: it runs up to its first suspension, which is
\* the timer of enforceRateLimit or, with lastRequestTime recorded, fetch.
StartCall(call) ==
    /\ LET c    == Len(calls) + 1
           wait == TimeToWait(now, lastRequestTime)
       IN  IF ReturnsWithoutRequest(call)
           THEN /\ calls' = Append(calls, Frame(call, "done", now, 0, <<>>,
                                                 <<Resolved(<<ListBody(<<>>)>>)>>))
                /\ UNCHANGED <<lastRequestTime, requestLog>>
           ELSE IF wait > 0
           THEN /\ calls' = Append(calls, Frame(call, "sleeping", now, now + wait,
                                                 <<>>, <<>>))
                /\ UNCHANGED <<lastRequestTime, requestLog>>
           ELSE /\ calls' = Append(calls, Frame(call, "fetching", now, 0, <<>>, <<>>))
                /\ lastRequestTime' = now
                /\ requestLog' = IssueRequest(requestLog, c, Endpoint(call), now)
    /\ UNCHANGED <<now, notClientVars>>

\* The timer of enforceRateLimit fires (at its time or later): the call
\* records the time and goes on to fetch.
Wake(c) ==
    /\ c \in 1..Len(calls)
    /\ calls[c].pc = "sleeping"
    /\ now >= calls[c].wakeAt
    /\ calls' = [calls EXCEPT ![c].pc = "fetching"]
    /\ lastRequestTime' = now
    /\ requestLog' = IssueRequest(requestLog, c, Endpoint(calls[c].call), now)
    /\ UNCHANGED <<now, notClientVars>>

\* A client that goes back to its rate limit and requests again after 429.
SettledFrameRetrying(frame, response) ==
    IF response.status = 429
    THEN [frame EXCEPT !.pc = "sleeping"]
    ELSE [frame EXCEPT !.pc = "done", !.response = <<response>>,
                       !.result = <<CallOutcome(frame.call, response)>>]

\* The frame of a call after fetch has settled with response: makeRequest
\* returns or throws, and so does the method; nothing is requested again.
SettledFrame(frame, response) ==
    [frame EXCEPT !.pc = "done", !.response = <<response>>,
                  !.result = <<CallOutcome(frame.call, response)>>]

\* fetch settles with response.
Respond(c, response) ==
    /\ c \in 1..Len(calls)
    /\ calls[c].pc = "fetching"
    /\ calls' = [calls EXCEPT ![c] = SettledFrame(calls[c], response)]
    /\ UNCHANGED <<now, lastRequestTime, requestLog, notClientVars>>

\* Time passes.
Tick ==
    /\ now + TickMs <= MaxTime
    /\ now' = now + TickMs
    /\ UNCHANGED <<lastRequestTime, calls, requestLog, notClientVars>>

\* A client on which no call has been made.
ClientIdle ==
    /\ now = 10 * rateLimitDelayMs
    /\ lastRequestTime = 0
    /\ calls = <<>>
    /\ requestLog = <<>>

(***************************************************************************)
(* Specifications.                                                         *)
(***************************************************************************)
\* A plan of up to MaxMeals meals is aggregated.
Init ==
    /\ NoCall
    /\ NoWaiting
    /\ meals \in Plans
    /\ PlanIdle
    /\ NoConfidence
    /\ ClientIdle

Next ==
    \/ StartPlan
    \/ \E m \in 1..MaxMeals, k \in 1..MaxLines, outcome \in PlanOutcomes :
           MatcherSettle(m, k, outcome)
    \/ \E m \in 1..MaxMeals : BatchDone(m)
    \/ PlanDone

Spec ==
    Init /\ [][Next]_vars

\* One ingredient line is aggregated, under every behaviour of the matcher.
InitIngredient ==
    /\ NoCall
    /\ NoWaiting
    /\ meals \in SingleLinePlans
    /\ PlanIdle
    /\ NoConfidence
    /\ ClientIdle

NextIngredient ==
    \/ StartPlan
    \/ \E outcome \in MatcherOutcomes : MatcherSettle(1, 1, outcome)
    \/ BatchDone(1)
    \/ PlanDone

SpecIngredient ==
    InitIngredient /\ [][NextIngredient]_vars

\* The overall confidence is computed for every list of ingredient confidences.
InitConfidence ==
    /\ NoCall
    /\ NoWaiting
    /\ NoPlan
    /\ confidences \in UNION {[1..n -> ConfidenceLevels] : n \in 0..MaxIngredients}
    /\ mealConfidence = "none"
    /\ ClientIdle

NextConfidence ==
    ComputeMealConfidence

SpecConfidence ==
    InitConfidence /\ [][NextConfidence]_vars

\* Calls are made on one client at any time, also while others are pending:
\* the calls of a batch of calculateMealNutrition start in the same turn.
InitClient ==
    /\ NoCall
    /\ NoWaiting
    /\ NoPlan
    /\ NoConfidence
    /\ ClientIdle

NextClient ==
    \/ \E call \in MatcherCallsOfBatch : Len(calls) < MaxCalls /\ StartCall(call)
    \/ \E c \in 1..MaxCalls : Wake(c)
    \/ \E c \in 1..MaxCalls, response \in TimingResponses : Respond(c, response)
    \/ Tick

SpecClient ==
    InitClient /\ [][NextClient]_vars

\* Calls are made one after another, each awaited before the next starts.
NextSequential ==
    \/ \E call \in CallsInTurn : Len(calls) < MaxCalls /\ AllSettled /\ StartCall(call)
    \/ \E c \in 1..MaxCalls : Wake(c)
    \/ \E c \in 1..MaxCalls, response \in TimingResponses : Respond(c, response)
    \/ Tick

SpecSequential ==
    InitClient /\ [][NextSequential]_vars

\* A call is made on a client, fresh or used TickMs before, and the database
\* answers it in every way.
InitRequest ==
    /\ NoCall
    /\ NoWaiting
    /\ NoPlan
    /\ NoConfidence
    /\ now = 10 * rateLimitDelayMs
    /\ lastRequestTime \in {0, now - TickMs}
    /\ calls = <<>>
    /\ requestLog = <<>>

NextRequest ==
    \/ \E call \in Calls : Len(calls) < MaxRequests /\ AllSettled /\ StartCall(call)
    \/ \E c \in 1..MaxRequests : Wake(c)
    \/ \E c \in 1..MaxRequests, response \in Responses : Respond(c, response)
    \/ Tick

SpecRequest ==
    InitRequest /\ [][NextRequest]_vars

(***************************************************************************)
(* Properties.                                                             *)
(***************************************************************************)
\* Ingredient k of meal m has a result (of the current batch, or appended).
HasResult(m, k) ==
    /\ m \in DOMAIN mealRun
    /\ \/ k \in DOMAIN mealRun[m].batchResults
       \/ k <= Len(mealRun[m].ingredientNutritions)

\* The IngredientNutrition of ingredient k of meal m.
ResultOf(m, k) ==
    IF k \in DOMAIN mealRun[m].batchResults
    THEN mealRun[m].batchResults[k]
    ELSE mealRun[m].ingredientNutritions[k]

\* The matcher was called for ingredient k of meal m.
MatcherCalled(m, k) ==
    \E c \in 1..Len(matcherCalls) : matcherCalls[c].meal = m /\ matcherCalls[c].index = k

\* The result that belongs to line k of meal m: that of the line as parsed
\* and of the outcome of its own matcher call.
ExpectedResult(m, k) ==
    LET parsedIngredient == mealRun[m].parsedIngredients[k]
        outcome          == matcherOutcomes[<<m, k>>]
    IN  IF parsedIngredient.quantity = RZero
        THEN NegligibleNutrition(parsedIngredient)
        ELSE IF /\ outcome.kind = "food"
                /\ \E n \in 1..Len(outcome.food.foodNutrients) :
                       /\ outcome.food.foodNutrients[n].nutrientId \in {1008, 1003, 1004, 1005}
                       /\ outcome.food.foodNutrients[n].value # RZero
        THEN MatchedNutrition(parsedIngredient, outcome).value
        ELSE createFallbackNutrition(parsedIngredient)

\* The parsed ingredients of every started meal are those of its lines, in order.
ParsedInInputOrder ==
    \A m \in DOMAIN mealRun :
        /\ Len(mealRun[m].parsedIngredients) = Len(meals[m].ingredients)
        /\ \A k \in 1..Len(meals[m].ingredients) :
               mealRun[m].parsedIngredients[k].original = meals[m].ingredients[k]

\* C1: whatever every matcher call does (a food item, no match, an exception),
\* neither calculateMealNutrition nor calculateMealsNutrition rejects; a meal
\* resolves with exactly one IngredientNutrition per input line and the plan
\* with one entry per meal; an ingredient whose matcher call threw has the
\* fallback estimate, confidence low, source fallback.
C1_AggregationNeverAborts ==
    /\ planPc # "rejected"
    /\ \A m \in DOMAIN mealRun : mealRun[m].pc # "rejected"
    /\ \A m \in DOMAIN mealNutrition :
           meals[m].hasIngredients =>
               Len(mealNutrition[m].ingredients) = Len(meals[m].ingredients)
    /\ planPc = "done" =>
           /\ Len(planResults) = Len(meals)
           /\ \A m \in 1..Len(meals) :
                  meals[m].hasIngredients =>
                      Len(planResults[m].nutrition.ingredients) = Len(meals[m].ingredients)
    /\ \A key \in DOMAIN matcherOutcomes :
           matcherOutcomes[key].kind = "throw" =>
               /\ HasResult(key[1], key[2])
               /\ ResultOf(key[1], key[2]).confidence = "low"
               /\ ResultOf(key[1], key[2]).source = "fallback"
               /\ ResultOf(key[1], key[2]).nutrition =
                      createFallbackNutrition(
                          mealRun[key[1]].parsedIngredients[key[2]]).nutrition

\* C1 witness: a plan of two meals has resolved although a matcher call threw;
\* the ingredient of that call ("3 eggs") has the egg baseline times 3.
C1_Witness ==
    /\ planPc = "done"
    /\ Len(planResults) = 2
    /\ \E m \in 1..Len(meals), k \in 1..MaxLines :
           /\ <<m, k>> \in DOMAIN matcherOutcomes
           /\ matcherOutcomes[<<m, k>>].kind = "throw"
           /\ planResults[m].nutrition.ingredients[k].nutrition =
                  Nutrition(RInt(210), RInt(18), RInt(15), <<3, 2>>)
           /\ planResults[m].nutrition.ingredients[k].source = "fallback"

\* C3: the k-th ingredient result of a meal is the result of the k-th input
\* line, whichever matcher call or batch finished first, and the entries of
\* the plan result follow the input meals.
C3_ResultsInInputOrder ==
    /\ ParsedInInputOrder
    /\ \A m \in DOMAIN mealRun :
           \A k \in 1..Len(mealRun[m].ingredientNutritions) :
               mealRun[m].ingredientNutritions[k] = ExpectedResult(m, k)
    /\ \A m \in DOMAIN mealNutrition :
           \A k \in 1..Len(mealNutrition[m].ingredients) :
               mealNutrition[m].ingredients[k] = ExpectedResult(m, k)
    /\ planPc = "done" =>
           \A m \in 1..Len(meals) :
               /\ planResults[m].name = meals[m].name
               /\ Len(planResults[m].nutrition.ingredients) = Len(meals[m].ingredients)
               /\ \A k \in 1..Len(meals[m].ingredients) :
                      planResults[m].nutrition.ingredients[k] = ExpectedResult(m, k)

\* C3 witness: a plan of two meals has resolved, one meal of two batches, after
\* a matcher call settled before an earlier call of its batch, with results
\* that differ within the first batch.
C3_Witness ==
    /\ planPc = "done"
    /\ outOfOrder
    /\ Len(meals) = 2
    /\ \E m \in 1..Len(meals) :
           /\ Len(planResults[m].nutrition.ingredients) > batchSize
           /\ planResults[m].nutrition.ingredients[1] # planResults[m].nutrition.ingredients[2]

\* The line contains "to taste", "pinch" or "dash".
IsQualitative(line) ==
    \/ Includes(line, Word.to_taste)
    \/ Includes(line, Word.pinch)
    \/ Includes(line, Word.dash)

\* C4: an ingredient line that contains "to taste", "pinch" or "dash" is parsed
\* to quantity 0 with unit "to taste"; its nutrition is exactly zero with
\* confidence low and source fallback, and the matcher is never called for it.
C4_QualitativeAmountIsNegligible ==
    \A m \in DOMAIN mealRun :
        \A k \in 1..Len(meals[m].ingredients) :
            IsQualitative(meals[m].ingredients[k]) =>
                /\ mealRun[m].parsedIngredients[k].quantity = RZero
                /\ mealRun[m].parsedIngredients[k].unit = Word.to_taste
                /\ ~MatcherCalled(m, k)
                /\ <<m, k>> \notin DOMAIN matcherOutcomes
                /\ HasResult(m, k)
                /\ ResultOf(m, k).nutrition = ZeroNutrition
                /\ ResultOf(m, k).confidence = "low"
                /\ ResultOf(m, k).source = "fallback"

\* C4 witness: a line with "dash" in it has been resolved to zero nutrition.
C4_Witness ==
    /\ planPc = "done"
    /\ Includes(meals[1].ingredients[1], Word.dash)
    /\ planResults[1].nutrition.ingredients[1].nutrition = ZeroNutrition
    /\ planResults[1].nutrition.ingredients[1].ingredient.unit = Word.to_taste
    /\ matcherCalls = <<>>

\* C9: the overall confidence is high iff strictly more than 70% of the
\* ingredients are of high confidence, medium iff strictly more than 40% but
\* not more than 70% are, low otherwise; exactly 70% gives medium, exactly 40%
\* gives low, and no ingredient at all gives low.
C9_MealConfidenceThresholds ==
    LET high  == HighCount(confidences)
        total == Len(confidences)
    IN  mealConfidence # "none" =>
            /\ mealConfidence = "high" <=> 10 * high > 7 * total
            /\ mealConfidence = "medium" <=> (10 * high > 4 * total /\ 10 * high <= 7 * total)
            /\ mealConfidence = "low" <=> 10 * high <= 4 * total
            /\ (total = 10 /\ high = 7) => mealConfidence = "medium"
            /\ (total = 5 /\ high = 2) => mealConfidence = "low"
            /\ total = 0 => mealConfidence = "low"

\* C9 witness: 7 of 10 ingredients are of high confidence and the meal is medium.
C9_Witness ==
    /\ Len(confidences) = 10
    /\ HighCount(confidences) = 7
    /\ mealConfidence = "medium"

\* The nutrient list names all four macros.
ListsAllMacros(food) ==
    \A id \in {1008, 1003, 1004, 1005} :
        \E n \in 1..Len(food.foodNutrients) : food.foodNutrients[n].nutrientId = id

\* C10: a database-sourced ingredient result has confidence high iff all four
\* macros are present in the matched candidate's nutrient list and its
\* relevance score is above 50; otherwise it has confidence medium.
C10_HighIffAllMacrosListed ==
    \A m \in DOMAIN mealRun :
        \A k \in 1..Len(meals[m].ingredients) :
            (HasResult(m, k) /\ ResultOf(m, k).source = "usda") =>
                LET food == matcherOutcomes[<<m, k>>].food
                IN  ResultOf(m, k).confidence =
                        IF ListsAllMacros(food) /\ food.score > 50 THEN "high" ELSE "medium"

\* C10 counterexample: the matched candidate lists all four macros (protein
\* with amount 0) and has score 1051, and the ingredient result is medium.
C10_ListedZeroMacroIsMedium ==
    /\ planPc = "done"
    /\ <<1, 1>> \in DOMAIN matcherOutcomes
    /\ matcherOutcomes[<<1, 1>>] = FoodOutcome(Food_olive_oil)
    /\ ListsAllMacros(Food_olive_oil)
    /\ Food_olive_oil.score > 50
    /\ planResults[1].nutrition.ingredients[1].source = "usda"
    /\ planResults[1].nutrition.ingredients[1].confidence = "medium"

\* The number of outbound requests call c has issued.
RequestsOf(c) ==
    Cardinality({j \in 1..Len(requestLog) : requestLog[j].call = c})

\* Call c has been released by enforceRateLimit.
Released(c) ==
    calls[c].pc \in {"fetching", "done"} /\ ~ReturnsWithoutRequest(calls[c].call)

\* C2: on one client, for every interleaving of concurrent callers, any two
\* outbound requests are released at least rateLimitDelayMs apart, and no two
\* callers that were made to wait from the same reading of lastRequestTime
\* both proceed at the same time.
C2_ConcurrentRequestsSpaced ==
    /\ \A i, j \in 1..Len(requestLog) :
           i < j => requestLog[j].time - requestLog[i].time >= rateLimitDelayMs
    /\ \A c, d \in 1..Len(calls) :
           (c < d /\ Released(c) /\ Released(d) /\ calls[c].wakeAt > 0) =>
               calls[c].wakeAt # calls[d].wakeAt

\* C2 counterexample: three callers of one turn; the first is released at
\* once, the other two read the same lastRequestTime, sleep until the same
\* time and are released in the same millisecond.
C2_TwoCallersReleasedTogether ==
    /\ Len(calls) = 3
    /\ calls[1].startedAt = calls[3].startedAt
    /\ calls[1].wakeAt = 0
    /\ calls[2].wakeAt = calls[1].startedAt + rateLimitDelayMs
    /\ calls[3].wakeAt = calls[2].wakeAt
    /\ Released(2)
    /\ Released(3)
    /\ \E i, j \in 1..Len(requestLog) :
           /\ requestLog[i].call = 2
           /\ requestLog[j].call = 3
           /\ requestLog[i].time = requestLog[j].time

\* Call c is a findBestMatch call whose search was answered with HTTP 401.
UnauthorizedMatch(c) ==
    /\ calls[c].call.op = "findBestMatch"
    /\ calls[c].pc = "done"
    /\ calls[c].response # <<>>
    /\ calls[c].response[1].kind = "response"
    /\ calls[c].response[1].status = 401

\* C5: when the database answers the search of findBestMatch with HTTP 401,
\* findBestMatch fails towards its caller with that failure, it does not
\* return "no match", and the query is requested once only.
C5_UnauthorizedIsSurfaced ==
    \A c \in 1..Len(calls) :
        UnauthorizedMatch(c) =>
            /\ calls[c].result[1].kind = "rejected"
            /\ calls[c].result[1].error[1].statusCode = <<401>>
            /\ RequestsOf(c) = 1

\* C5 counterexample: the search of a findBestMatch call was answered with
\* HTTP 401 and the call resolved with null, as it does when nothing is found.
C5_UnauthorizedReturnsNoMatch ==
    \E c \in 1..Len(calls) :
        /\ UnauthorizedMatch(c)
        /\ calls[c].result = <<Resolved(<<>>)>>
        /\ calls[c].result =
               <<CallOutcome(calls[c].call, HttpResponse(200, <<SearchNoHits>>))>>
        /\ RequestsOf(c) = 1

\* Call c is a settled request of searchFoods, getFoodDetails or getFoodsDetails.
SettledRequest(c) ==
    /\ calls[c].call.op \in {"searchFoods", "getFoodDetails", "getFoodsDetails"}
    /\ calls[c].pc = "done"
    /\ calls[c].response # <<>>

\* C6: every failure of searchFoods, getFoodDetails and getFoodsDetails is a
\* USDAAPIError: with the HTTP status and the parsed body (if there is one)
\* of a response that is not 2xx, without status for a failure of the
\* transport; no other error leaves makeRequest, and a 2xx response with a
\* JSON body is returned.
C6_FailuresAreTyped ==
    \A c \in 1..Len(calls) :
        SettledRequest(c) =>
            LET response == calls[c].response[1]
                result   == calls[c].result[1]
            IN  /\ result.kind = "rejected" =>
                       result.error[1].name = "USDAAPIError"
                /\ (response.kind = "response" /\ ~IsOk(response.status)) =>
                       /\ result.kind = "rejected"
                       /\ result.error[1].statusCode = <<response.status>>
                       /\ result.error[1].response = response.body
                /\ response.kind = "network" =>
                       /\ result.kind = "rejected"
                       /\ result.error[1].statusCode = <<>>
                       /\ result.error[1].response = <<>>
                /\ (response.kind = "response" /\ IsOk(response.status)
                        /\ response.body # <<>>) =>
                       result = Resolved(response.body)

\* C6 witness: searchFoods was answered with HTTP 429 and a JSON body, and
\* failed with a USDAAPIError of status 429 that carries the body.
C6_Witness ==
    \E c \in 1..Len(calls) :
        /\ SettledRequest(c)
        /\ calls[c].call.op = "searchFoods"
        /\ calls[c].response[1] = HttpResponse(429, <<ErrorBody>>)
        /\ calls[c].result[1].kind = "rejected"
        /\ calls[c].result[1].error[1] =
               USDAAPIError(ErrorMessage(429), <<429>>, <<ErrorBody>>)

\* C7: a call of searchFoods, getFoodDetails, getFoodsDetails (list not
\* empty) or findBestMatch issues exactly one outbound request, whatever the
\* answer: none while it waits for the rate limit, one from its release on,
\* and never a second one.
C7_OneRequestPerCall ==
    \A c \in 1..Len(calls) :
        ~ReturnsWithoutRequest(calls[c].call) =>
            /\ calls[c].pc = "sleeping" => RequestsOf(c) = 0
            /\ calls[c].pc \in {"fetching", "done"} => RequestsOf(c) = 1

\* C7 witness: findBestMatch was answered with HTTP 429 and has settled
\* after one request.
C7_Witness ==
    \E c \in 1..Len(calls) :
        /\ calls[c].call.op = "findBestMatch"
        /\ calls[c].pc = "done"
        /\ calls[c].response = <<HttpResponse(429, <<>>)>>
        /\ RequestsOf(c) = 1
        /\ Len(requestLog) = 1

\* C8: when every call is awaited before the next starts, whatever the
\* endpoints, a call made less than rateLimitDelayMs after the recorded time
\* of the last request waits until that interval is over, the time of its
\* release is recorded, and consecutive requests are at least
\* rateLimitDelayMs apart.
C8_CallsInTurnSpaced ==
    /\ \A j \in 1..Len(requestLog) :
           LET frame    == calls[requestLog[j].call]
               previous == IF j = 1 THEN 0 ELSE requestLog[j - 1].time
           IN  /\ requestLog[j].time - previous >= rateLimitDelayMs
               /\ IF frame.startedAt - previous < rateLimitDelayMs
                  THEN /\ frame.wakeAt = previous + rateLimitDelayMs
                       /\ requestLog[j].time >= frame.wakeAt
                  ELSE /\ frame.wakeAt = 0
                       /\ requestLog[j].time = frame.startedAt
    /\ requestLog # <<>> => lastRequestTime = requestLog[Len(requestLog)].time
    /\ \A c \in 1..Len(calls) :
           calls[c].pc = "sleeping" =>
               /\ RequestsOf(c) = 0
               /\ calls[c].wakeAt = lastRequestTime + rateLimitDelayMs

\* C8 witness: three awaited calls on three endpoints; the second was made
\* less than rateLimitDelayMs after the first request, waited, and the third
\* was made to wait by the recorded release of the second.
C8_Witness ==
    /\ Len(requestLog) = 3
    /\ requestLog[1].endpoint = "/foods/search"
    /\ requestLog[2].endpoint = "/food/{fdcId}"
    /\ requestLog[3].endpoint = "/foods"
    /\ calls[2].startedAt - requestLog[1].time < rateLimitDelayMs
    /\ calls[2].wakeAt = requestLog[1].time + rateLimitDelayMs
    /\ calls[3].wakeAt = requestLog[2].time + rateLimitDelayMs
    /\ requestLog[3].time - requestLog[2].time >= rateLimitDelayMs

\* No one of the four macros is in the nutrient list.
ListsNoMacro(food) ==
    \A n \in 1..Len(food.foodNutrients) :
        food.foodNutrients[n].nutrientId \notin {1008, 1003, 1004, 1005}

\* The per-100g amount of a macro in the nutrient list, 0 when it is absent.
ListedAmount(food, nutrientId) ==
    IF \E n \in 1..Len(food.foodNutrients) : food.foodNutrients[n].nutrientId = nutrientId
    THEN getNutrientValue(food.foodNutrients, nutrientId)
    ELSE RZero

\* C11: for an ingredient of non-zero quantity, getIngredientNutrition uses
\* the fallback estimator exactly when the matcher returns no candidate,
\* throws, or returns a candidate whose nutrient list has none of the four
\* macros; otherwise the result is database-sourced and each macro is the
\* candidate's per-100g amount times grams / 100, an absent macro being 0.
C11_FallbackExactlyWithoutData ==
    \A m \in DOMAIN mealRun :
        \A k \in 1..Len(meals[m].ingredients) :
            (HasResult(m, k) /\ mealRun[m].parsedIngredients[k].quantity # RZero) =>
                LET parsedIngredient == mealRun[m].parsedIngredients[k]
                    outcome     == matcherOutcomes[<<m, k>>]
                    food        == outcome.food
                    scaleFactor == RDiv(quantityToGrams(parsedIngredient.quantity,
                                                        parsedIngredient.unit,
                                                        parsedIngredient.ingredient),
                                        RInt(100))
                IN  IF outcome.kind \in {"none", "throw"} \/ ListsNoMacro(food)
                    THEN ResultOf(m, k) = createFallbackNutrition(parsedIngredient)
                    ELSE /\ ResultOf(m, k).source = "usda"
                         /\ ResultOf(m, k).nutrition =
                                Nutrition(RMul(ListedAmount(food, 1008), scaleFactor),
                                          RMul(ListedAmount(food, 1003), scaleFactor),
                                          RMul(ListedAmount(food, 1004), scaleFactor),
                                          RMul(ListedAmount(food, 1005), scaleFactor))

\* C11 counterexample: the matcher returned a candidate that lists all four
\* macros, each with amount 0, for an ingredient of quantity 12, and the
\* result is the fallback estimate (250 kcal), not the database's zeros.
C11_ListedZerosFallBack ==
    /\ planPc = "done"
    /\ <<1, 1>> \in DOMAIN matcherOutcomes
    /\ matcherOutcomes[<<1, 1>>] = FoodOutcome(Food_water)
    /\ ~ListsNoMacro(Food_water)
    /\ planResults[1].nutrition.ingredients[1].ingredient.quantity # RZero
    /\ planResults[1].nutrition.ingredients[1].source = "fallback"
    /\ planResults[1].nutrition.ingredients[1].nutrition # ZeroNutrition

(***************************************************************************)
(* The mock database of test-nutrition.js and the chicken-salad fixture.   *)
(***************************************************************************)
\* MockUSDAApi's mockData: its rows, in the insertion order of the object.
mockData ==
    <<[key |-> <<"l","a","r","g","e"," ","e","g","g","s">>,
       data |->
         Food_eggs],
      [key |-> <<"f","r","e","s","h"," ","s","p","i","n","a","c","h">>,
       data |->
         [fdcId |-> 456,
          description |-> <<"S","p","i","n","a","c","h",","," ","r","a","w">>,
          score |-> 95,
          foodNutrients |-> <<Nutrient(1008, RInt(23)), Nutrient(1003, <<29, 10>>), Nutrient(1004, <<2, 5>>), Nutrient(1005, <<18, 5>>)>>]],
      [key |-> <<"s","l","i","c","e","d"," ","m","u","s","h","r","o","o","m","s">>,
       data |->
         [fdcId |-> 789,
          description |-> <<"M","u","s","h","r","o","o","m","s",","," ","w","h","i","t","e",","," ","r","a","w">>,
          score |-> 90,
          foodNutrients |-> <<Nutrient(1008, RInt(22)), Nutrient(1003, <<31, 10>>), Nutrient(1004, <<3, 10>>), Nutrient(1005, <<33, 10>>)>>]],
      [key |-> <<"b","u","t","t","e","r">>,
       data |->
         [fdcId |-> 101,
          description |-> <<"B","u","t","t","e","r",","," ","s","a","l","t","e","d">>,
          score |-> 100,
          foodNutrients |-> <<Nutrient(1008, RInt(717)), Nutrient(1003, <<9, 10>>), Nutrient(1004, RInt(81)), Nutrient(1005, <<1, 10>>)>>]],
      [key |-> <<"c","h","i","c","k","e","n"," ","b","r","e","a","s","t">>,
       data |->
         [fdcId |-> 2187885,
          description |-> <<"C","H","I","C","K","E","N"," ","B","R","E","A","S","T">>,
          score |-> 1236,
          foodNutrients |-> <<Nutrient(1008, RInt(165)), Nutrient(1003, <<102, 5>>), Nutrient(1004, <<81, 10>>), Nutrient(1005, <<53, 50>>)>>]],
      [key |-> <<"m","i","x","e","d"," ","g","r","e","e","n","s">>,
       data |->
         [fdcId |-> 2097148,
          description |-> <<"M","I","X","E","D"," ","G","R","E","E","N","S">>,
          score |-> 1293,
          foodNutrients |-> <<Nutrient(1008, RInt(29)), Nutrient(1003, <<47, 20>>), Nutrient(1004, RZero), Nutrient(1005, <<147, 25>>)>>]],
      [key |-> <<"c","u","c","u","m","b","e","r">>,
       data |->
         [fdcId |-> 169225,
          description |-> <<"C","u","c","u","m","b","e","r",","," ","p","e","e","l","e","d",","," ","r","a","w">>,
          score |-> 420,
          foodNutrients |-> <<Nutrient(1008, RInt(10)), Nutrient(1003, <<59, 100>>), Nutrient(1004, <<4, 25>>), Nutrient(1005, <<54, 25>>)>>]],
      [key |-> <<"a","v","o","c","a","d","o">>,
       data |->
         Food_avocado],
      [key |-> <<"o","l","i","v","e"," ","o","i","l">>,
       data |->
         Food_olive_oil],
      [key |-> <<"l","e","m","o","n"," ","j","u","i","c","e">>,
       data |->
         [fdcId |-> 167747,
          description |-> <<"L","e","m","o","n"," ","j","u","i","c","e",","," ","r","a","w">>,
          score |-> 509,
          foodNutrients |-> <<Nutrient(1008, RInt(22)), Nutrient(1003, <<7, 20>>), Nutrient(1004, <<6, 25>>), Nutrient(1005, <<69, 10>>)>>]]>>

\* The special cases MockUSDAApi.findBestMatch tries after the direct lookup:
\* the words looked for in the query and the key of the row returned.
mockSpecialCases ==
    <<[words |-> <<<<"c","h","i","c","k","e","n"," ","b","r","e","a","s","t">>, <<"c","h","i","c","k","e","n">>>>, key |-> <<"c","h","i","c","k","e","n"," ","b","r","e","a","s","t">>],
      [words |-> <<<<"m","i","x","e","d"," ","g","r","e","e","n","s">>, <<"g","r","e","e","n","s">>, <<"l","e","t","t","u","c","e">>>>, key |-> <<"m","i","x","e","d"," ","g","r","e","e","n","s">>],
      [words |-> <<<<"c","u","c","u","m","b","e","r">>>>, key |-> <<"c","u","c","u","m","b","e","r">>],
      [words |-> <<<<"a","v","o","c","a","d","o">>>>, key |-> <<"a","v","o","c","a","d","o">>],
      [words |-> <<<<"o","l","i","v","e"," ","o","i","l">>, <<"o","i","l">>>>, key |-> <<"o","l","i","v","e"," ","o","i","l">>],
      [words |-> <<<<"l","e","m","o","n"," ","j","u","i","c","e">>, <<"l","e","m","o","n">>>>, key |-> <<"l","e","m","o","n"," ","j","u","i","c","e">>]>>

\* MockUSDAApi.findBestMatch: the first row whose key the lower-cased query
\* includes, else the first special case one of whose words it includes, else
\* null.
MockFindBestMatch(ingredientQuery) ==
    LET MockRow(key) ==
            mockData[CHOOSE r \in 1..Len(mockData) : mockData[r].key = key].data
        query   == ToLowerCase(ingredientQuery)
        direct  == {r \in 1..Len(mockData) : Includes(query, mockData[r].key)}
        special == {c \in 1..Len(mockSpecialCases) :
                       \E w \in 1..Len(mockSpecialCases[c].words) :
                           Includes(query, mockSpecialCases[c].words[w])}
    IN  IF direct # {}
        THEN FoodOutcome(mockData[CHOOSE r \in direct : \A q \in direct : r <= q].data)
        ELSE IF special # {}
        THEN FoodOutcome(MockRow(mockSpecialCases[
                 CHOOSE c \in special : \A q \in special : c <= q].key))
        ELSE NoMatchOutcome

\* testIngredients of testUSDAIntegration: the chicken salad.
testIngredients ==
    <<<<"1","5","0","g"," ","c","h","i","c","k","e","n"," ","b","r","e","a","s","t">>,
      <<"2"," ","c","u","p","s"," ","m","i","x","e","d"," ","g","r","e","e","n","s"," ","(","l","e","t","t","u","c","e",","," ","s","p","i","n","a","c","h",")">>,
      <<"1","/","2"," ","c","u","c","u","m","b","e","r",","," ","s","l","i","c","e","d">>,
      <<"1","/","4"," ","a","v","o","c","a","d","o",","," ","s","l","i","c","e","d">>,
      <<"2"," ","t","a","b","l","e","s","p","o","o","n","s"," ","o","l","i","v","e"," ","o","i","l">>,
      <<"1"," ","t","a","b","l","e","s","p","o","o","n"," ","l","e","m","o","n"," ","j","u","i","c","e">>,
      <<"s","a","l","t"," ","a","n","d"," ","p","e","p","p","e","r">>>>

\* The meals made of some of the lines of the chicken salad, in its order.
FixturePlans ==
    {<<[name |-> MealNames[1], hasIngredients |-> TRUE,
        ingredients |-> [i \in 1..Cardinality(S) |-> testIngredients[Ascending(S)[i]]]]>> :
        S \in SUBSET (1..Len(testIngredients))}

\* nutritionCalculator.calculateMealNutrition(testIngredients) against the mock.
InitFixture ==
    /\ NoCall
    /\ NoWaiting
    /\ meals \in FixturePlans
    /\ PlanIdle
    /\ NoConfidence
    /\ ClientIdle

\* The mock's findBestMatch resolves for ingredient k of the meal.
MockSettle(k) ==
    /\ planPc = "running"
    /\ k \in 1..Len(mealRun[1].parsedIngredients)
    /\ MatcherSettle(1, k, MockFindBestMatch(mealRun[1].parsedIngredients[k].ingredient))

NextFixture ==
    \/ StartPlan
    \/ \E k \in 1..Len(testIngredients) : MockSettle(k)
    \/ BatchDone(1)
    \/ PlanDone

SpecFixture ==
    InitFixture /\ [][NextFixture]_vars

(***************************************************************************)
(* The totals of a meal.                                                   *)
(***************************************************************************)
RECURSIVE FieldSum(_, _, _)
FieldSum(ingredientNutritions, field, k) ==
    IF k = 0 THEN RZero
    ELSE RAdd(FieldSum(ingredientNutritions, field, k - 1),
              ingredientNutritions[k].nutrition[field])

MacroId(field) ==
    CASE field = "calories" -> 1008
      [] field = "protein"  -> 1003
      [] field = "fat"      -> 1004
      [] field = "carbs"    -> 1005

\* The nutrition of a resolved ingredient is the per-100g amounts of the food
\* the mock returned times grams / 100, or else the fallback estimate.
ScaledOrFallback(ingredientNutrition) ==
    LET parsed  == ingredientNutrition.ingredient
        outcome == MockFindBestMatch(parsed.ingredient)
        grams   == quantityToGrams(parsed.quantity, parsed.unit, parsed.ingredient)
    IN  IF ingredientNutrition.source = "usda"
        THEN /\ outcome.kind = "food"
             /\ \A f \in MacroNames :
                    RMul(ingredientNutrition.nutrition[f], RInt(100))
                        = RMul(ListedAmount(outcome.food, MacroId(f)), grams)
        ELSE ingredientNutrition.nutrition = createFallbackNutrition(parsed).nutrition

\* value.toFixed(1), in tenths.
ToFixed1(value) ==
    MathRound(RMul(value, RInt(10)))

\* C12: the total of a meal is, field by field, the sum of the nutrition of its
\* ingredients, each of them the scaled database amounts or the fallback
\* estimate; for the whole chicken salad against the mock database the totals
\* round to 516 kcal, 35.7 g protein, 32.2 g fat and 19.6 g carbs.
C12_TotalIsSumOfIngredients ==
    \A m \in DOMAIN mealNutrition :
        LET result == mealNutrition[m]
        IN  /\ \A f \in MacroNames :
                   result.total[f] = FieldSum(result.ingredients, f, Len(result.ingredients))
            /\ \A i \in 1..Len(result.ingredients) : ScaledOrFallback(result.ingredients[i])
            /\ meals[m].ingredients = testIngredients
                   => /\ Len(result.ingredients) = Len(testIngredients)
                      /\ MathRound(result.total.calories) = RInt(516)
                      /\ ToFixed1(result.total.protein) = RInt(357)
                      /\ ToFixed1(result.total.fat) = RInt(322)
                      /\ ToFixed1(result.total.carbs) = RInt(196)

C12_Witness ==
    /\ planPc = "done"
    /\ meals[1].ingredients = testIngredients
    /\ Len(planResults[1].nutrition.ingredients) = 7
    /\ planResults[1].nutrition.ingredients[1].source = "usda"
    /\ planResults[1].nutrition.ingredients[7].source = "fallback"
    /\ MathRound(planResults[1].nutrition.total.calories) = RInt(516)

\* C13: calculateMealsNutrition returns one entry for every meal, in input
\* order and under the meal's name; a meal without the ingredients field has
\* all four totals zero, no ingredients and confidence low, and no matcher call
\* is ever made for it.
C13_OneEntryPerMeal ==
    /\ \A c \in 1..Len(matcherCalls) :
           /\ matcherCalls[c].meal \in 1..Len(meals)
           /\ meals[matcherCalls[c].meal].hasIngredients
    /\ \A p \in DOMAIN matcherOutcomes : meals[p[1]].hasIngredients
    /\ planPc = "done" =>
           /\ Len(planResults) = Len(meals)
           /\ \A m \in 1..Len(meals) :
                  /\ planResults[m].name = meals[m].name
                  /\ ~meals[m].hasIngredients =>
                         /\ \A f \in MacroNames : planResults[m].nutrition.total[f] = RZero
                         /\ planResults[m].nutrition.ingredients = <<>>
                         /\ planResults[m].nutrition.confidence = "low"

C13_Witness ==
    /\ planPc = "done"
    /\ Len(meals) = 2
    /\ ~meals[1].hasIngredients
    /\ Len(meals[2].ingredients) = 2
    /\ meals[1].name # meals[2].name
    /\ planResults[1].nutrition.ingredients = <<>>
    /\ Len(planResults[2].nutrition.ingredients) = 2
    /\ Len(matcherCalls) = 1

(***************************************************************************)
(* Quantity and unit of a parsed line.                                     *)
(***************************************************************************)
\* The value of a fraction a/b of two runs of digits; a zero denominator gives 0.
FractionValue(fraction) ==
    LET slash == IndexOfChar(fraction, "/", 1)
        a     == IntVal(SubSeq(fraction, 1, slash - 1))
        b     == IntVal(Suffix(fraction, slash + 1))
    IN  IF b = 0 THEN RZero ELSE RNorm(a, b)

\* Quantity and unit of a line read as: a leading integer or decimal and an
\* optional fraction after it, or a fraction alone; then the next token, which
\* is the unit when it is a key of the unit table.
LeadingQuantityAndUnit(ingredientText) ==
    LET text     == ToLowerCase(Trim(ingredientText))
        whole    == SkipRun(text, Digits, 1)
        bare     == FractionEnd(text, 1)
        number   == OptionalDecimalsEnd(text, whole)
        gap      == SkipRun(text, WhiteSpace, number)
        fraction == IF gap > number THEN FractionEnd(text, gap) ELSE 0
        stop     == IF bare > 0 THEN bare ELSE IF fraction > 0 THEN fraction ELSE number
        quantity == IF bare > 0 THEN FractionValue(SubSeq(text, 1, bare - 1))
                    ELSE RAdd(DecimalValue(SubSeq(text, 1, number - 1)),
                              IF fraction > 0
                              THEN FractionValue(SubSeq(text, gap, fraction - 1))
                              ELSE RZero)
        rest     == Trim(Suffix(text, stop))
        token    == SubSeq(rest, 1, NextSpace(rest, 1) - 1)
    IN  IF whole = 1
        THEN [quantity |-> RInt(1), unit |-> Word.unit]
        ELSE [quantity |-> quantity,
              unit     |-> IF token \in validUnits THEN token ELSE Word.unit]

\* The parsed form of the only line of the plan, once the plan has started.
ParsedLine ==
    mealRun[1].parsedIngredients[1]

LineParsed ==
    /\ planPc # "idle"
    /\ Len(meals) = 1
    /\ Len(mealRun[1].parsedIngredients) = 1

\* C14: a line without "to taste", "pinch" or "dash" is parsed to the sum of
\* its leading integer or decimal and its optional fraction (a zero
\* denominator contributing 0), 1 when there is no leading number; its unit is
\* the next token when that is a key of the unit table, whatever its case, and
\* "unit" otherwise; "2 cups spinach" gives (2, cups, spinach), "1 1/2 tbsp
\* honey" (1.5, tbsp) and "3 eggs" (3, unit, eggs).
C14_QuantityAndUnitOfALine ==
    LineParsed /\ ~IsQualitative(ToLowerCase(ParsedLine.original)) =>
        /\ ParsedLine.quantity = LeadingQuantityAndUnit(ParsedLine.original).quantity
        /\ ParsedLine.unit = LeadingQuantityAndUnit(ParsedLine.original).unit
        /\ ParsedLine.original = <<"2"," ","c","u","p","s"," ","s","p","i","n","a","c","h">> =>
               /\ ParsedLine.quantity = RInt(2)
               /\ ParsedLine.unit = <<"c","u","p","s">>
               /\ ParsedLine.ingredient = <<"s","p","i","n","a","c","h">>
        /\ ParsedLine.original = <<"1"," ","1","/","2"," ","t","b","s","p"," ","h","o","n","e","y">> =>
               /\ ParsedLine.quantity = <<3, 2>>
               /\ ParsedLine.unit = <<"t","b","s","p">>
        /\ ParsedLine.original = L_3_eggs =>
               /\ ParsedLine.quantity = RInt(3)
               /\ ParsedLine.unit = Word.unit
               /\ ParsedLine.ingredient = <<"e","g","g","s">>

\* "1 1/2.5 cups flour" is parsed to 7/5 cups of flour: the decimals after
\* the fraction are taken into its denominator.
C14_DecimalsJoinTheDenominator ==
    /\ LineParsed
    /\ ParsedLine.original = <<"1"," ","1","/","2",".","5"," ","c","u","p","s"," ","f","l","o","u","r">>
    /\ ~IsQualitative(ToLowerCase(ParsedLine.original))
    /\ LeadingQuantityAndUnit(ParsedLine.original) = [quantity |-> <<3, 2>>, unit |-> Word.unit]
    /\ ParsedLine.quantity = <<7, 5>>
    /\ ParsedLine.unit = <<"c","u","p","s">>
    /\ ParsedLine.ingredient = <<"f","l","o","u","r">>

\* C15: the unit of a parsed line is a key of the unit table, "unit" or
\* "to taste"; with the unit "to taste" the quantity is 0; the quantity is
\* never negative.
C15_UnitAndQuantityOfParsedLine ==
    LineParsed =>
        /\ ParsedLine.unit \in DOMAIN unitConversions \cup {Word.unit, Word.to_taste}
        /\ ParsedLine.unit = Word.to_taste => ParsedLine.quantity = RZero
        /\ ~RLess(ParsedLine.quantity, RZero)

C15_Witness ==
    /\ LineParsed
    /\ ParsedLine.original = L_Salt_to_taste
    /\ ParsedLine.unit = Word.to_taste
    /\ ParsedLine.quantity = RZero
    /\ Word.to_taste \notin DOMAIN unitConversions

(***************************************************************************)
(* The name of a parsed line.                                              *)
(***************************************************************************)
\* The name is lowercase and holds no parenthetical clause and no descriptor.
Canonical(name) ==
    /\ ToLowerCase(name) = name
    /\ RemoveParens(name) = name
    /\ \A k \in 1..Len(descriptorsToRemove) : RemoveWord(name, descriptorsToRemove[k]) = name

\* C16: on every branch of parseIngredient the name of the parsed line is
\* canonical: lowercase, without parenthetical clauses and without the
\* preparation and state descriptors.
C16_ParsedNameIsCanonical ==
    LineParsed => Canonical(ParsedLine.ingredient)

\* "Pepper (to taste)" keeps its capital letter: the to-taste branch removes
\* the parenthetical clause and nothing else.
C16_ToTasteNameKeepsItsCase ==
    /\ LineParsed
    /\ ParsedLine.original = <<"P","e","p","p","e","r"," ","(","t","o"," ","t","a","s","t","e",")">>
    /\ ParsedLine.unit = Word.to_taste
    /\ ParsedLine.ingredient = <<"P","e","p","p","e","r">>
    /\ ~Canonical(ParsedLine.ingredient)

(***************************************************************************)
(* Grams of a quantity.                                                    *)
(***************************************************************************)
\* The density multiplier of the first class one of whose words the name holds.
DensityMultiplier(ingredient) ==
    LET name == ToLowerCase(ingredient)
    IN  IF Includes(name, Word.oil) THEN <<23, 25>>
        ELSE IF Includes(name, Word.honey) \/ Includes(name, Word.syrup) THEN <<71, 50>>
        ELSE IF \/ Includes(name, Word.milk)
                \/ Includes(name, Word.cream)
                \/ Includes(name, Word.yogurt) THEN <<103, 100>>
        ELSE IF \/ Includes(name, Word.spinach)
                \/ Includes(name, Word.lettuce)
                \/ Includes(name, Word.greens) THEN <<1, 8>>
        ELSE IF Includes(name, Word.mushroom) \/ Includes(name, Word.onion) THEN <<5, 8>>
        ELSE RInt(1)

IsVolumeUnit(unit) ==
    /\ unit \in DOMAIN unitConversions
    /\ unitConversions[unit].type = "volume"

GramsOfLine ==
    quantityToGrams(ParsedLine.quantity, ParsedLine.unit, ParsedLine.ingredient)

\* C17: for a volume unit quantityToGrams is the quantity times the
\* water-based gram-equivalent of the unit times the density multiplier of
\* the first matching class of the name (oil 0.92, honey and syrup 1.42, milk,
\* cream and yogurt 1.03, spinach, lettuce and greens 0.125, mushroom and
\* onion 0.625, otherwise 1); 2 cup of olive oil are 441.6 g.
C17_VolumeGramsByDensity ==
    LineParsed /\ IsVolumeUnit(ParsedLine.unit) =>
        GramsOfLine = RMul(RMul(ParsedLine.quantity, unitConversions[ParsedLine.unit].toGrams),
                           DensityMultiplier(ParsedLine.ingredient))

\* 2 cup of olive oil are 442 g: the grams of one cup of oil are rounded to
\* 221 before they are multiplied by the quantity.
C17_OilCupIsRounded ==
    /\ planPc = "done"
    /\ LineParsed
    /\ ParsedLine.original = <<"2"," ","c","u","p"," ","o","l","i","v","e"," ","o","i","l">>
    /\ ParsedLine.quantity = RInt(2)
    /\ ParsedLine.unit = <<"c","u","p">>
    /\ IsVolumeUnit(ParsedLine.unit)
    /\ ParsedLine.ingredient = <<"o","l","i","v","e"," ","o","i","l">>
    /\ GramsOfLine = RInt(442)
    /\ RMul(RMul(ParsedLine.quantity, unitConversions[ParsedLine.unit].toGrams),
            DensityMultiplier(ParsedLine.ingredient)) = <<2208, 5>>
    /\ matcherOutcomes[<<1, 1>>] = FoodOutcome(Food_eggs)
    /\ planResults[1].nutrition.ingredients[1].source = "usda"
    /\ planResults[1].nutrition.ingredients[1].nutrition.calories = RNorm(155 * 442, 100)

(***************************************************************************)
(* Single calls of the functions of the calculator and of the client.      *)
(* args is <<name of the function, its arguments>>.                        *)
(***************************************************************************)
\* The calls of quantityToGrams(quantity, unit, ingredient).
GramsCalls ==
    {"quantityToGrams"}
    \X {RZero, <<1, 2>>, RInt(2)}
    \X {<<"u","n","i","t">>,
        <<"c","u","p">>,
        <<"o","z">>,
        <<"g">>,
        <<"l","b">>,
        <<"p","i","e","c","e","s">>,
        <<"c","l","o","v","e","s">>,
        <<"c","o","n","s","t","r","u","c","t","o","r">>,
        <<"t","o"," ","t","a","s","t","e">>,
        <<"C","U","P">>,
        <<"K","g">>}
    \X {<<"e","g","g","s">>,
        <<"a","p","p","l","e">>,
        <<"o","r","a","n","g","e"," ","j","u","i","c","e">>,
        <<"b","a","n","a","n","a">>,
        <<"a","v","o","c","a","d","o">>,
        <<"c","u","c","u","m","b","e","r">>,
        <<"g","a","r","l","i","c"," ","c","l","o","v","e">>,
        <<"c","l","o","v","e"," ","g","a","r","l","i","c">>,
        <<"l","e","m","o","n">>,
        <<"l","i","m","e">>,
        <<"e","g","g","p","l","a","n","t">>,
        <<"r","a","d","i","s","h","e","s">>,
        <<"o","l","i","v","e"," ","o","i","l">>,
        <<"s","p","i","n","a","c","h">>,
        <<"a","p","p","l","e"," ","a","n","d"," ","e","g","g">>,
        <<"l","i","m","e"," ","a","v","o","c","a","d","o">>}

\* calculator.quantityToGrams(quantity, unit, ingredient) returns.
ConvertToGrams ==
    /\ returned = <<>>
    /\ args[1] = "quantityToGrams"
    /\ returned' = <<quantityToGrams(args[2], args[3], args[4])>>
    /\ UNCHANGED <<args, notCallVars>>

\* The unit-less weights, in the order in which they are tried.
UnitlessWeights ==
    <<[words |-> <<<<"e","g","g">>>>, grams |-> 50],
      [words |-> <<<<"a","p","p","l","e">>, <<"o","r","a","n","g","e">>>>, grams |-> 150],
      [words |-> <<<<"b","a","n","a","n","a">>>>, grams |-> 120],
      [words |-> <<<<"a","v","o","c","a","d","o">>>>, grams |-> 150],
      [words |-> <<<<"c","u","c","u","m","b","e","r">>>>, grams |-> 300],
      [words |-> <<<<"c","l","o","v","e"," ","g","a","r","l","i","c">>, <<"g","a","r","l","i","c"," ","c","l","o","v","e">>>>, grams |-> 3],
      [words |-> <<<<"l","e","m","o","n">>, <<"l","i","m","e">>>>, grams |-> 100]>>

\* The grams of one piece: the weight of the first entry one of whose words the
\* name holds, and 1 (the quantity counts as grams) when there is none.
UnitlessWeight(ingredient) ==
    LET name    == ToLowerCase(ingredient)
        matches == {e \in 1..Len(UnitlessWeights) :
                       \E w \in 1..Len(UnitlessWeights[e].words) :
                           Includes(name, UnitlessWeights[e].words[w])}
    IN  IF matches = {} THEN RInt(1)
        ELSE RInt(UnitlessWeights[CHOOSE e \in matches : \A d \in matches : e <= d].grams)

\* C18: with the unit "unit" or a unit that is not in the unit table,
\* quantityToGrams returns the quantity times the weight of the first matching
\* entry among egg 50, apple/orange 150, banana 120, avocado 150, cucumber 300,
\* garlic clove 3, lemon/lime 100, and the quantity itself when none matches,
\* never zero for a non-zero quantity; with a weight unit it returns the
\* quantity times the gram-equivalent of the unit whatever the name.
C18_GramsWithoutVolumeUnit ==
    returned # <<>> /\ args[1] = "quantityToGrams" =>
        LET quantity   == args[2]
            unit       == ToLowerCase(args[3])
            ingredient == args[4]
        IN  /\ unit \notin DOMAIN unitConversions =>
                   /\ returned[1] = RMul(quantity, UnitlessWeight(ingredient))
                   /\ quantity # RZero => returned[1] # RZero
            /\ unit \in DOMAIN unitConversions /\ unitConversions[unit].type = "weight" =>
                   returned[1] = RMul(quantity, unitConversions[unit].toGrams)

\* 2 "constructor" of eggs are not 100 g: the lookup of the unit finds the
\* property every object inherits, and the product with its missing toGrams
\* is NaN.
C18_InheritedPropertyIsAUnit ==
    /\ args = <<"quantityToGrams", RInt(2), <<"c","o","n","s","t","r","u","c","t","o","r">>, <<"e","g","g","s">>>>
    /\ args[3] \notin DOMAIN unitConversions
    /\ args[3] # Word.unit
    /\ returned = <<NaN>>
    /\ RMul(args[2], UnitlessWeight(args[4])) = RInt(100)

\* The names built of at most n of these words: two descriptors, three other
\* words and the comma, with one space between them.
RECURSIVE NamesOfWords(_)
NamesOfWords(n) ==
    LET words == {<<"r","a","w">>,
                  <<"s","l","i","c","e","d">>,
                  <<"w","i","t","h">>,
                  <<"s","k","i","n">>,
                  <<"c","h","i","c","k","e","n">>,
                  <<",">>}
    IN  IF n = 1 THEN words
        ELSE NamesOfWords(n - 1)
                 \cup {w \o <<" ">> \o name : w \in words, name \in NamesOfWords(n - 1)}

\* The calls of cleanIngredientName(ingredient).
CleanCalls ==
    {<<"cleanIngredientName", name>> : name \in NamesOfWords(MaxWords)}

\* cleanIngredientName(ingredient) returns.
CleanName ==
    /\ returned = <<>>
    /\ args[1] = "cleanIngredientName"
    /\ returned' = <<cleanIngredientName(args[2])>>
    /\ UNCHANGED <<args, notCallVars>>

\* A candidate of the ranker: a row with the four macros and its fibre.
RankFood(description, amounts) ==
    [fdcId |-> 1, description |-> description, score |-> 100,
     foodNutrients |-> <<Nutrient(1079, RInt(3)), Nutrient(1008, RInt(amounts[1])),
                         Nutrient(1003, RInt(amounts[2])), Nutrient(1004, RInt(amounts[3])),
                         Nutrient(1005, RInt(amounts[4]))>>]

\* The candidate without its four macros.
WithoutMacros(food) ==
    [food EXCEPT !.foodNutrients =
        SelectSeq(@, LAMBDA n : n.nutrientId \notin {1008, 1003, 1004, 1005})]

\* The calls of filterAndRankFoods(foods, ingredientQuery): a candidate and its
\* copy without macros, in both orders, next to each other or around another
\* row; a candidate alone and among other rows; no candidate.
RankCalls ==
    LET candidates == {RankFood(d, a) :
                          d \in {<<"W","a","t","e","r",","," ","t","a","p">>,
                                 <<"A","v","o","c","a","d","o","s",","," ","r","a","w">>},
                          a \in {<<0, 0, 0, 0>>, <<160, 2, 15, 9>>, <<884, 0, 100, 0>>}}
        lists      == UNION {{<<c, WithoutMacros(c)>>,
                              <<WithoutMacros(c), c>>,
                              <<c, Food_butter, WithoutMacros(c)>>,
                              <<WithoutMacros(c), Food_butter, c>>,
                              <<c>>,
                              <<Food_butter, Food_cheese, c>>,
                              <<Food_avocado_oil, c, Food_avocado, WithoutMacros(c)>>} :
                                 c \in candidates}
                      \cup {<<>>}
    IN  {<<"filterAndRankFoods", foods, query>> :
            foods \in lists, query \in {<<"a","v","o","c","a","d","o">>, <<"w","a","t","e","r">>}}

\* filterAndRankFoods(foods, ingredientQuery) returns.
RankFoods ==
    /\ returned = <<>>
    /\ args[1] = "filterAndRankFoods"
    /\ returned' = <<filterAndRankFoods(args[2], args[3])>>
    /\ UNCHANGED <<args, notCallVars>>

\* A search body that carries only the number of hits, without a foods list.
SearchWithoutFoods(totalHits) ==
    [kind |-> "count", totalHits |-> totalHits]

\* calculateMealNutrition on a list of one line with the client of the
\* database as the matcher: what parseIngredient, findBestMatch,
\* getIngredientNutrition and calculateMealNutrition return, findBestMatch
\* being absent when the quantity 0 returns before it.  debug is
\* process.env.DEBUG_NUTRITION, read by each of them; only the logging of
\* findBestMatch evaluates something that may be undefined.
calculateMealNutritionOfLine(ingredientText, response, debug) ==
    LET parsed    == parseIngredient(ingredientText)
        foodItem  == findBestMatchOutcome(parsed.ingredient,
                                          makeRequestOutcome(response), debug)
        outcome   == IF foodItem.kind = "rejected" THEN ThrowOutcome
                     ELSE IF foodItem.value = <<>> THEN NoMatchOutcome
                     ELSE FoodOutcome(foodItem.value[1])
        nutrition == IF SkipsMatcher(parsed) THEN NegligibleNutrition(parsed)
                     ELSE IngredientAfterMatch(parsed, outcome).value
    IN  [parseIngredient          |-> parsed,
         findBestMatch            |-> IF SkipsMatcher(parsed) THEN <<>> ELSE <<foodItem>>,
         getIngredientNutrition   |-> nutrition,
         calculateMealNutrition   |-> MealResult(<<nutrition>>)]

\* The calls of calculateMealNutrition with the client: lines with and
\* without a quantity, every response of the database, the toggle set or not.
DebugCalls ==
    {"calculateMealNutrition"}
        \X {L_3_eggs, L_Salt_to_taste, <<"2"," ","c","u","p"," ","o","l","i","v","e"," ","o","i","l">>}
        \X (Responses \cup {HttpResponse(200, <<SearchWithoutFoods(totalHits)>>) :
                                totalHits \in {0, 2}})
        \X BOOLEAN

CalculateLine ==
    /\ returned = <<>>
    /\ args[1] = "calculateMealNutrition"
    /\ returned' = <<calculateMealNutritionOfLine(args[2], args[3], args[4])>>
    /\ UNCHANGED <<args, notCallVars>>

\* The calls of createFallbackNutrition(parsedIngredient): getIngredientNutrition
\* reaches it only with a quantity other than 0, and parseIngredient keeps
\* the case of a name only for a line without quantity; names of one
\* category, of several and of none.
FallbackCalls ==
    {call \in {"createFallbackNutrition"}
                  \X {<<1, 4>>, <<1, 2>>, RInt(1), RInt(3), RInt(5), RInt(7)}
                  \X {<<"c","u","p">>,
                      <<"g">>,
                      <<"u","n","i","t">>,
                      <<"t","b","s","p">>}
                  \X {<<"c","h","i","c","k","e","n"," ","w","i","t","h"," ","g","r","e","e","n","s">>,
                      <<"e","g","g"," ","f","r","i","e","d"," ","i","n"," ","o","i","l">>,
                      <<"a","v","o","c","a","d","o"," ","o","i","l">>,
                      <<"c","h","e","e","s","e"," ","a","n","d"," ","a","v","o","c","a","d","o">>,
                      <<"S","p","i","n","a","c","h">>,
                      <<"P","O","R","K"," ","c","h","o","p">>,
                      <<"b","u","t","t","e","r">>,
                      <<"e","g","g","p","l","a","n","t">>,
                      <<"b","o","i","l","e","d"," ","e","g","g"," ","w","i","t","h"," ","c","h","e","e","s","e">>,
                      <<"a","v","o","c","a","d","o">>} :
        \/ call[4] = ToLowerCase(call[4])
        \/ call[2] = RInt(1) /\ call[3] = Word.unit}

\* createFallbackNutrition(parsedIngredient) returns.
CreateFallback ==
    /\ returned = <<>>
    /\ args[1] = "createFallbackNutrition"
    /\ returned' = <<createFallbackNutrition([original   |-> args[4],
                                              quantity   |-> args[2],
                                              unit       |-> args[3],
                                              ingredient |-> args[4]])>>
    /\ UNCHANGED <<args, notCallVars>>

InitCall ==
    /\ NoWaiting
    /\ NoPlan
    /\ NoConfidence
    /\ ClientIdle
    /\ \/ args \in GramsCalls
       \/ args \in CleanCalls
       \/ args \in RankCalls
       \/ args \in DebugCalls
       \/ args \in FallbackCalls
    /\ returned = <<>>

NextCall ==
    \/ ConvertToGrams
    \/ CleanName
    \/ RankFoods
    \/ CalculateLine
    \/ CreateFallback

SpecCall ==
    InitCall /\ [][NextCall]_vars

(***************************************************************************)
(* Cleaning a name twice.                                                  *)
(***************************************************************************)
\* C19: cleaning is idempotent: for a name built of descriptors (the
\* two-word "with skin" among them), other words, commas and spaces, cleaning
\* the cleaned name returns the cleaned name.
C19_CleaningIsIdempotent ==
    returned # <<>> /\ args[1] = "cleanIngredientName" =>
        cleanIngredientName(returned[1]) = returned[1]

\* "chicken with raw skin" is cleaned to "chicken with skin", and that to
\* "chicken": removing "raw" brings "with" and "skin" together after the
\* descriptor "with skin" has had its turn.
C19_CleaningJoinsADescriptor ==
    /\ args = <<"cleanIngredientName", <<"c","h","i","c","k","e","n"," ","w","i","t","h"," ","r","a","w"," ","s","k","i","n">>>>
    /\ returned = <<<<"c","h","i","c","k","e","n"," ","w","i","t","h"," ","s","k","i","n">>>>
    /\ cleanIngredientName(returned[1]) = <<"c","h","i","c","k","e","n">>

(***************************************************************************)
(* The rank of a candidate with macros and of its copy without.            *)
(***************************************************************************)
\* The position of food in the sequence foods (0 if it is not there).
PositionOf(foods, food) ==
    IF \E p \in 1..Len(foods) : foods[p] = food
    THEN CHOOSE p \in 1..Len(foods) : foods[p] = food
    ELSE 0

\* C20: for the same query a candidate whose nutrient list holds all four
\* macros never ranks below a candidate that is the same but for missing all
\* four, whatever their positions in the list of the provider and whatever the
\* amounts of the macros.
C20_MacrosNeverRankBelowNone ==
    returned # <<>> /\ args[1] = "filterAndRankFoods" =>
        \A p \in 1..Len(args[2]) :
            ListsAllMacros(args[2][p]) /\ PositionOf(args[2], WithoutMacros(args[2][p])) > 0 =>
                PositionOf(returned[1], args[2][p])
                    < PositionOf(returned[1], WithoutMacros(args[2][p]))

\* Tap water with all four macros listed at amount 0 ranks below its copy
\* without macros when the provider lists the copy first: both are taken to
\* have no data, and the sort keeps the order of equal scores.
C20_ListedZerosRankBelow ==
    LET water == RankFood(<<"W","a","t","e","r",","," ","t","a","p">>, <<0, 0, 0, 0>>)
    IN  /\ args = <<"filterAndRankFoods", <<WithoutMacros(water), water>>, <<"w","a","t","e","r">>>>
        /\ ListsAllMacros(water)
        /\ ListsNoMacro(WithoutMacros(water))
        /\ AdjustedScore(water, args[3]) = AdjustedScore(WithoutMacros(water), args[3])
        /\ returned = <<<<WithoutMacros(water), water>>>>

(***************************************************************************)
(* The output of the ranker.                                               *)
(***************************************************************************)
\* out holds the candidates of foods by descending adjusted score, those of
\* equal score in the order of foods: perm[i] is the place in foods of out[i].
StablySortedBy(out, foods, ingredientQuery) ==
    /\ Len(out) = Len(foods)
    /\ \E perm \in [1..Len(foods) -> 1..Len(foods)] :
           /\ \A i, j \in 1..Len(foods) : i # j => perm[i] # perm[j]
           /\ \A i \in 1..Len(foods) : out[i] = foods[perm[i]]
           /\ \A i, j \in 1..Len(foods) :
                  i < j =>
                      \/ AdjustedScore(foods[perm[i]], ingredientQuery)
                             > AdjustedScore(foods[perm[j]], ingredientQuery)
                      \/ /\ AdjustedScore(foods[perm[i]], ingredientQuery)
                                = AdjustedScore(foods[perm[j]], ingredientQuery)
                         /\ perm[i] < perm[j]

\* C21: the output of the ranker is its input sorted by descending adjusted
\* score, candidates of equal score in the order of the provider; it holds
\* exactly the candidates of the input, those without data included, each in
\* its original shape, without the adjusted score.
C21_RankerSortsStably ==
    returned # <<>> /\ args[1] = "filterAndRankFoods" =>
        /\ StablySortedBy(returned[1], args[2], args[3])
        /\ \A i \in 1..Len(returned[1]) :
               /\ "adjustedScore" \notin DOMAIN returned[1][i]
               /\ \E p \in 1..Len(args[2]) : returned[1][i] = args[2][p]
        /\ \A p \in 1..Len(args[2]) :
               \E i \in 1..Len(returned[1]) : returned[1][i] = args[2][p]

C21_Witness ==
    /\ returned # <<>>
    /\ args[1] = "filterAndRankFoods"
    /\ Len(args[2]) = 3
    /\ ListsNoMacro(args[2][1])
    /\ AdjustedScore(args[2][1], args[3]) = AdjustedScore(args[2][3], args[3])
    /\ AdjustedScore(args[2][2], args[3]) > AdjustedScore(args[2][1], args[3])
    /\ returned[1] = <<args[2][2], args[2][1], args[2][3]>>

(***************************************************************************)
(* C22: the toggle DEBUG_NUTRITION changes no returned value.              *)
(***************************************************************************)
LoggedCall ==
    /\ args # <<>>
    /\ args[1] = "calculateMealNutrition"
    /\ returned # <<>>

\* C22: for every line and every response of the database, parseIngredient,
\* findBestMatch, getIngredientNutrition and calculateMealNutrition return
\* with DEBUG_NUTRITION set the values they return with it unset.
C22_DebugChangesNoValue ==
    LoggedCall =>
        returned[1] = calculateMealNutritionOfLine(args[2], args[3], FALSE)

\* With the toggle set, a body without foods makes the logging of findBestMatch
\* throw; the call has returned null and the estimate of the line.
C22_Witness ==
    /\ LoggedCall
    /\ args[4]
    /\ args[2] = L_3_eggs
    /\ args[3] = HttpResponse(200, <<SearchWithoutFoods(2)>>)
    /\ returned[1].findBestMatch = <<Resolved(<<>>)>>
    /\ returned[1].getIngredientNutrition.source = "fallback"

(***************************************************************************)
(* WaitingExperience.handleWaitingPeriod with LoadingAnimations, KetoQuiz,  *)
(* WordScramble and NutritionFacts.                                         *)
(***************************************************************************)
\* The number of questions of KetoQuiz.
questions == 4

\* The number of words of WordScramble.
words == 5

\* The number of facts of NutritionFacts.
facts == 12

\* The frames of an animation that are followed.
MaxFrames == 2

WaitingExperienceTypes ==
    {"cooking", "clock", "transform", "spinner", "quiz", "scramble", "facts", "random"}

\* The list start draws from for random: facts is in it twice.
options ==
    <<"cooking", "clock", "transform", "spinner", "quiz", "scramble", "facts", "facts">>

\* The types whose case of the switch of start sets LoadingAnimations.interval.
AnimationTypes ==
    {"cooking", "clock", "transform", "spinner"}

\* The types whose case awaits playQuiz or playScramble.
GameTypes ==
    {"quiz", "scramble"}

\* startCookingAnimation, startFastingClock, startFoodTransform, startSpinner.
StartAnimation ==
    /\ currentFrame' = 0
    /\ interval' = TRUE

\* NutritionFacts.displayRandomFacts: the first fact is shown at once and a
\* timeout of 2500 ms is set; the duration argument is not read.
displayRandomFacts ==
    /\ factIndex' = 1
    /\ factsTimer' = TRUE

\* WaitingExperience.start(t) up to its first await, t being the type after
\* the draw of random.
Start(t) ==
    /\ type' = t
    /\ IF t \in AnimationTypes
       THEN /\ StartAnimation
            /\ UNCHANGED <<game, answered, factsTimer, factIndex>>
       ELSE IF t \in GameTypes
       THEN /\ game' = "playing"
            /\ answered' = 0
            /\ UNCHANGED <<interval, currentFrame, factsTimer, factIndex>>
       ELSE /\ displayRandomFacts
            /\ UNCHANGED <<interval, currentFrame, game, answered>>

\* handleWaitingPeriod from its call to its first await that waits.
HandleWaitingPeriod ==
    /\ waitPc = "idle"
    /\ IF experienceType \in GameTypes
       THEN /\ Start(experienceType)
            /\ waitPc' = "game"
            /\ UNCHANGED <<operationPromise, invocations>>
       ELSE /\ operationPromise' = "pending"
            /\ invocations' = invocations + 1
            /\ IF experienceType = "facts"
               THEN /\ displayRandomFacts
                    /\ waitPc' = "awaitOperation"
                    /\ UNCHANGED <<type, interval, currentFrame, game, answered>>
               ELSE \E t \in IF experienceType = "random"
                                 THEN {options[o] : o \in DOMAIN options}
                                 ELSE {experienceType} :
                        /\ Start(t)
                        /\ waitPc' = IF t \in GameTypes THEN "game" ELSE "awaitOperation"
    /\ UNCHANGED <<experienceType, notWaitingVars>>

\* One prompt of playQuiz or playScramble is answered.  After the last one the
\* game resolves and handleWaitingPeriod runs on to its next await: in the
\* branch of the games it starts the spinner and calls asyncOperation, in the
\* other branch it awaits operationPromise, which may have settled already.
AnswerPrompt ==
    /\ waitPc = "game"
    /\ game = "playing"
    /\ LET last == IF type = "quiz" THEN questions ELSE words
       IN  IF answered + 1 < last
           THEN /\ answered' = answered + 1
                /\ UNCHANGED <<waitPc, operationPromise, invocations, interval,
                               currentFrame, game>>
           ELSE /\ answered' = last
                /\ game' = "done"
                /\ IF experienceType \in GameTypes
                   THEN /\ StartAnimation
                        /\ operationPromise' = "pending"
                        /\ invocations' = invocations + 1
                        /\ waitPc' = "awaitOperation"
                   ELSE /\ UNCHANGED <<operationPromise, invocations, currentFrame>>
                        /\ IF operationPromise = "resolved"
                           THEN /\ interval' = FALSE
                                /\ waitPc' = "resolved"
                           ELSE /\ UNCHANGED interval
                                /\ waitPc' = IF operationPromise = "rejected"
                                             THEN "rejected"
                                             ELSE "awaitOperation"
    /\ UNCHANGED <<experienceType, type, factsTimer, factIndex, notWaitingVars>>

\* The promise of asyncOperation settles.  If handleWaitingPeriod awaits it,
\* it runs on in the same turn: a rejection is thrown out of it past stop, a
\* value is returned after stop, or after a timeout of 1000 ms for facts.
\* A rejection while a game is awaited has no handler yet: the run-time
\* either reports it and goes on or ends the process.
OperationSettles(outcome) ==
    /\ operationPromise = "pending"
    /\ operationPromise' = outcome
    /\ IF waitPc = "game"
       THEN \/ UNCHANGED <<waitPc, interval, factsTimer>>
            \/ /\ outcome = "rejected"
               /\ waitPc' = "terminated"
               /\ UNCHANGED <<interval, factsTimer>>
       ELSE IF outcome = "rejected"
       THEN /\ waitPc' = "rejected"
            /\ UNCHANGED <<interval, factsTimer>>
       ELSE IF experienceType = "facts"
       THEN /\ waitPc' = "delay"
            /\ UNCHANGED <<interval, factsTimer>>
       ELSE /\ interval' = FALSE
            /\ waitPc' = "resolved"
            /\ UNCHANGED factsTimer
    /\ UNCHANGED <<experienceType, type, invocations, currentFrame, factIndex, game,
                   answered, notWaitingVars>>

\* The timeout of 1000 ms of the facts branch fires: the result is returned.
DelayElapsed ==
    /\ waitPc = "delay"
    /\ waitPc' = "resolved"
    /\ UNCHANGED <<experienceType, type, operationPromise, invocations, interval,
                   currentFrame, factsTimer, factIndex, game, answered, notWaitingVars>>

\* The callback of setInterval of an animation draws a frame.
AnimationFrame ==
    /\ waitPc # "terminated"
    /\ interval
    /\ currentFrame < MaxFrames
    /\ currentFrame' = currentFrame + 1
    /\ UNCHANGED <<experienceType, type, waitPc, operationPromise, invocations, interval,
                   factsTimer, factIndex, game, answered, notWaitingVars>>

\* The callback of the timeout of displayRandomFacts: the next fact and a new
\* timeout, or the closing line after the last fact.
ShowNextFact ==
    /\ waitPc # "terminated"
    /\ factsTimer
    /\ IF factIndex < facts
       THEN /\ factIndex' = factIndex + 1
            /\ UNCHANGED factsTimer
       ELSE /\ factsTimer' = FALSE
            /\ UNCHANGED factIndex
    /\ UNCHANGED <<experienceType, type, waitPc, operationPromise, invocations, interval,
                   currentFrame, game, answered, notWaitingVars>>

InitWaiting ==
    /\ NoCall
    /\ NoPlan
    /\ NoConfidence
    /\ ClientIdle
    /\ experienceType \in WaitingExperienceTypes
    /\ type = "none"
    /\ waitPc = "idle"
    /\ operationPromise = "notStarted"
    /\ invocations = 0
    /\ interval = FALSE
    /\ currentFrame = 0
    /\ factsTimer = FALSE
    /\ factIndex = 0
    /\ game = "none"
    /\ answered = 0

NextWaiting ==
    \/ HandleWaitingPeriod
    \/ AnswerPrompt
    \/ \E outcome \in {"resolved", "rejected"} : OperationSettles(outcome)
    \/ DelayElapsed
    \/ AnimationFrame
    \/ ShowNextFact

SpecWaiting ==
    InitWaiting /\ [][NextWaiting]_vars

(***************************************************************************)
(* C23: games before the operation, animations during it.                  *)
(***************************************************************************)
\* C23: whatever experience type is requested, random included, a game is
\* played only before asyncOperation is called, and an animation is set only
\* while the promise of asyncOperation is pending.
C23_GamesBeforeAnimationsDuring ==
    /\ game = "playing" => operationPromise = "notStarted"
    /\ interval => operationPromise = "pending"

\* With random the operation is called first and start then draws a game: a
\* prompt of the quiz is answered while the operation is pending.
C23_GameDuringOperation ==
    /\ experienceType = "random"
    /\ type = "quiz"
    /\ game = "playing"
    /\ answered > 0
    /\ operationPromise = "pending"

(***************************************************************************)
(* C30: one call of the operation, its outcome, and the timers stopped.    *)
(***************************************************************************)
Settled ==
    waitPc \in {"resolved", "rejected"}

\* C30: handleWaitingPeriod calls asyncOperation exactly once and settles as
\* its promise does; once it has settled, resolved or rejected, no interval of
\* an animation is set and no timeout of the facts is pending.
C30_OneCallAndTimersStopped ==
    /\ invocations <= 1
    /\ Settled => /\ invocations = 1
                  /\ waitPc = operationPromise
                  /\ ~interval
                  /\ ~factsTimer

\* The operation has rejected under the cooking animation: handleWaitingPeriod
\* has rejected without stop, and the interval goes on drawing frames.
C30_IntervalSetAfterRejection ==
    /\ experienceType = "cooking"
    /\ waitPc = "rejected"
    /\ operationPromise = "rejected"
    /\ invocations = 1
    /\ interval
    /\ currentFrame > 0

(***************************************************************************)
(* C24: the batches of calculateMealNutrition.                             *)
(***************************************************************************)
\* The matcher calls of meal m that have not settled: the calls of
\* getIngredientNutrition of that meal that are in flight.
InFlight(m) ==
    {c \in 1..Len(matcherCalls) :
        /\ matcherCalls[c].meal = m
        /\ <<m, matcherCalls[c].index>> \notin DOMAIN matcherOutcomes}

\* The slice of the ingredient list a position lies in.
SliceOf(index) ==
    (index - 1) \div batchSize

\* The call of getIngredientNutrition for ingredient j of meal m has started.
HasStarted(m, j) ==
    \E c \in 1..Len(matcherCalls) :
        matcherCalls[c].meal = m /\ matcherCalls[c].index = j

\* The call of getIngredientNutrition for ingredient j of meal m has completed.
HasCompleted(m, j) ==
    \/ <<m, j>> \in DOMAIN matcherOutcomes
    \/ SkipsMatcher(parseIngredient(meals[m].ingredients[j]))

\* C24: within one call of calculateMealNutrition at most batchSize calls of
\* getIngredientNutrition are in flight, a call of a later slice has started
\* only when every call of the earlier slices has completed, and the calls of
\* one slice of three consecutive ingredients start together.
C24_BatchesOfThreeInTurn ==
    \A m \in 1..Len(meals) :
        /\ Cardinality(InFlight(m)) <= batchSize
        /\ \A c \in 1..Len(matcherCalls) :
               matcherCalls[c].meal = m =>
                   \A j \in 1..Len(meals[m].ingredients) :
                       /\ SliceOf(j) < SliceOf(matcherCalls[c].index)
                              => HasCompleted(m, j)
                       /\ SliceOf(j) = SliceOf(matcherCalls[c].index)
                              => HasStarted(m, j) \/ HasCompleted(m, j)

\* Seven ingredients: the second slice has started, its three calls are in
\* flight and the three calls of the first slice have settled.
C24_Witness ==
    /\ Len(meals) = 1
    /\ Len(meals[1].ingredients) = 7
    /\ Cardinality(InFlight(1)) = batchSize
    /\ \A c \in InFlight(1) : SliceOf(matcherCalls[c].index) = 1
    /\ \A j \in 1..batchSize : <<1, j>> \in DOMAIN matcherOutcomes

(***************************************************************************)
(* C25: the adjusted score of a candidate.                                 *)
(***************************************************************************)
\* The provider score plus the deltas that apply, the macros counted by their
\* presence in the nutrient list.
ScoreByPresence(food, ingredientQuery) ==
    LET query       == ToLowerCase(ingredientQuery)
        description == ToLowerCase(food.description)
        QueryHas(w) == Includes(query, w)
        Has(w)      == Includes(description, w)
    IN  food.score
            + (IF /\ QueryHas(RankWord.avocado) \/ QueryHas(RankWord.fruit)
                         \/ QueryHas(RankWord.vegetable)
                  /\ Has(RankWord.raw) /\ ~Has(RankWord.oil)
               THEN 50 ELSE 0)
            + (IF /\ QueryHas(RankWord.avocado) \/ QueryHas(RankWord.olive)
                         \/ QueryHas(RankWord.coconut)
                  /\ Has(RankWord.oil) /\ ~QueryHas(RankWord.oil)
               THEN -100 ELSE 0)
            + (IF Has(RankWord.dressing) \/ Has(RankWord.spread) \/ Has(RankWord.dip)
                      \/ Has(RankWord.sauce)
               THEN -30 ELSE 0)
            + (IF ListsAllMacros(food) THEN 50 ELSE 0)
            + (IF ListsNoMacro(food) THEN -1000 ELSE 0)

\* C25: for every candidate and query of a call of the ranker, the adjusted
\* score is the provider score plus the deltas that apply: +50 raw produce,
\* -100 oil product, -30 prepared condiment, +50 when all four macros are in
\* the nutrient list, -1000 when none is; a macro listed with amount 0 counts
\* as present.
C25_ScoreIsProviderScorePlusDeltas ==
    returned # <<>> /\ args[1] = "filterAndRankFoods" =>
        \A p \in 1..Len(args[2]) :
            AdjustedScore(args[2][p], args[3]) = ScoreByPresence(args[2][p], args[3])

\* Raw avocados listed with 884 kcal, protein 0, fat 100 and carbs 0 have all
\* four macros in the list, yet the score is 100 + 50 for raw produce only:
\* the two amounts 0 are taken as missing.
C25_ListedZeroIsNotCounted ==
    LET avocados == RankFood(<<"A","v","o","c","a","d","o","s",","," ","r","a","w">>,
                             <<884, 0, 100, 0>>)
    IN  /\ args = <<"filterAndRankFoods", <<avocados>>, <<"a","v","o","c","a","d","o">>>>
        /\ returned = <<<<avocados>>>>
        /\ ListsAllMacros(avocados)
        /\ AdjustedScore(avocados, args[3]) = 150
        /\ ScoreByPresence(avocados, args[3]) = 200

(***************************************************************************)
(* C26: the fallback estimate.                                             *)
(***************************************************************************)
\* The categories of the estimator in the order they are tried, each with the
\* words that select it and its baseline; the last one takes every name.
FallbackCategories ==
    <<[words |-> {Word.spinach, Word.lettuce, Word.greens},
       baseline |-> Nutrition(RInt(25), RInt(3), RZero, RInt(4))],
      [words |-> {Word.chicken, Word.beef, Word.pork},
       baseline |-> Nutrition(RInt(250), RInt(25), RInt(15), RZero)],
      [words |-> {Word.oil},
       baseline |-> Nutrition(RInt(120), RZero, RInt(14), RZero)],
      [words |-> {Word.egg},
       baseline |-> Nutrition(RInt(70), RInt(6), RInt(5), <<1, 2>>)],
      [words |-> {Word.cheese},
       baseline |-> Nutrition(RInt(110), RInt(7), RInt(9), RInt(1))],
      [words |-> {Word.avocado},
       baseline |-> Nutrition(RInt(160), RInt(2), RInt(15), RInt(9))],
      [words |-> {<<>>},
       baseline |-> Nutrition(RInt(50), RInt(2), RInt(2), RInt(5))]>>

\* The baseline of the first category a name matches.
BaselineOf(ingredient) ==
    LET matching == {c \in DOMAIN FallbackCategories :
                        \E w \in FallbackCategories[c].words :
                            Includes(ToLowerCase(ingredient), w)}
    IN  FallbackCategories[CHOOSE c \in matching : \A d \in matching : c <= d].baseline

\* clamp(quantity, 0.5, 5).
Clamp(quantity) ==
    IF RLess(quantity, <<1, 2>>) THEN <<1, 2>>
    ELSE IF RLess(RInt(5), quantity) THEN RInt(5)
    ELSE quantity

\* C26: the estimator returns the baseline of the first matching category,
\* each macro times clamp(quantity, 0.5, 5), whatever the unit; every macro
\* lies between 0.5 times and 5 times its baseline, and the result has
\* confidence low and source fallback.
C26_FallbackIsClampedBaseline ==
    returned # <<>> /\ args[1] = "createFallbackNutrition" =>
        LET baseline == BaselineOf(args[4])
            result   == returned[1]
        IN  /\ result.nutrition = ScaleNutrition(baseline, Clamp(args[2]))
            /\ \A k \in MacroNames :
                   /\ ~RLess(result.nutrition[k], RMul(baseline[k], <<1, 2>>))
                   /\ ~RLess(RMul(baseline[k], RInt(5)), result.nutrition[k])
            /\ result.confidence = "low"
            /\ result.source = "fallback"

\* Seven tablespoons of an egg fried in oil: the oils come before the eggs,
\* and the quantity above 5 gives five times the baseline of the oils.
C26_Witness ==
    /\ args = <<"createFallbackNutrition", RInt(7), <<"t","b","s","p">>,
                <<"e","g","g"," ","f","r","i","e","d"," ","i","n"," ","o","i","l">>>>
    /\ returned # <<>>
    /\ returned[1].nutrition = Nutrition(RInt(600), RZero, RInt(70), RZero)
    /\ returned[1].confidence = "low"

(***************************************************************************)
(* C27: one matcher call per ingredient, none reused.                      *)
(***************************************************************************)
\* The matcher calls made for ingredient j of meal m.
CallsFor(m, j) ==
    {c \in 1..Len(matcherCalls) :
        matcherCalls[c].meal = m /\ matcherCalls[c].index = j}

\* calculateMealNutrition of meal m has started the slice of ingredient j.
SliceStarted(m, j) ==
    j <= mealRun[m].i + batchSize

\* C27: calculateMealNutrition has made exactly one matcher call, with the
\* parsed name, for every ingredient of non-zero quantity whose slice has
\* started and none for an ingredient of quantity 0, also when a line occurs
\* again in the list or the same list is given for another meal.
C27_OneMatcherCallPerIngredient ==
    planPc # "idle" =>
        \A m \in 1..Len(meals) :
            \A j \in 1..Len(meals[m].ingredients) :
                LET parsed == parseIngredient(meals[m].ingredients[j])
                IN  IF SliceStarted(m, j) /\ parsed.quantity # RZero
                    THEN /\ Cardinality(CallsFor(m, j)) = 1
                         /\ \A c \in CallsFor(m, j) : matcherCalls[c].query = parsed.ingredient
                    ELSE CallsFor(m, j) = {}

\* A list with the line 3 eggs three times and a line to taste has resolved:
\* three matcher calls for eggs, none for the salt.
C27_Witness ==
    /\ planPc = "done"
    /\ Len(meals) = 1
    /\ meals[1].ingredients = <<L_3_eggs, L_Salt_to_taste, L_3_eggs, L_3_eggs>>
    /\ Len(matcherCalls) = 3
    /\ \A c \in 1..3 : matcherCalls[c].query = <<"e","g","g","s">>
    /\ CallsFor(1, 2) = {}

(***************************************************************************)
(* C28: calculateMealsNutrition resolves when the matcher calls settle.    *)
(***************************************************************************)
\* Some matcher call in flight settles.
SettleMatcherCall ==
    \E m \in 1..MaxMeals, k \in 1..MaxLines, outcome \in PlanOutcomes :
        MatcherSettle(m, k, outcome)

\* The guard of BatchDone(m): Promise.all of the slice in flight has resolved.
BatchReady(m) ==
    /\ planPc = "running"
    /\ m \in 1..Len(meals)
    /\ mealRun[m].pc = "batch"
    /\ BatchIndices(mealRun[m].parsedIngredients, mealRun[m].i)
           \subseteq DOMAIN mealRun[m].batchResults

\* The guard of SettleMatcherCall: a matcher call is in flight.
MatcherCallInFlight ==
    /\ planPc = "running"
    /\ \E m \in 1..Len(meals) : InFlight(m) # {}

\* The plan under the scheduling of the event loop, with a matcher whose
\* calls all settle: every call in flight settles, and a continuation whose
\* promises have all resolved is run.  The weak fairness of SettleMatcherCall
\* and of BatchDone(m) is written out, with the guard of the action for its
\* enabledness.
SpecSettling ==
    /\ Init
    /\ [][Next]_vars
    /\ []<>(~MatcherCallInFlight) \/ []<><<SettleMatcherCall>>_vars
    /\ \A m \in 1..MaxMeals : []<>(~BatchReady(m)) \/ []<><<BatchDone(m)>>_vars
    /\ WF_vars(PlanDone)

\* A matcher call of meal m is in flight: the meal has no result, no call of a
\* later slice has started, and the plan has no result.
BlockedWhileInFlight(m) ==
    InFlight(m) # {} =>
        /\ m \notin DOMAIN mealNutrition
        /\ mealRun[m].pc = "batch"
        /\ \A c \in InFlight(m), d \in 1..Len(matcherCalls) :
               matcherCalls[d].meal = m
                   => SliceOf(matcherCalls[d].index) <= SliceOf(matcherCalls[c].index)
        /\ planPc = "running"
        /\ planResults = <<>>

\* C28: with every matcher call settling in the end, calculateMealsNutrition
\* and with it every calculateMealNutrition resolves in the end; and as long
\* as a matcher call is in flight nothing ends the wait for it, so that with a
\* call that never settles the result of its meal is never produced, no later
\* slice of the meal is started and the plan never resolves.
C28_ResolvesIffMatcherSettles ==
    /\ planPc = "running" ~> planPc = "done" /\ DOMAIN mealNutrition = 1..Len(meals)
    /\ [](\A m \in 1..Len(meals) : BlockedWhileInFlight(m))

\* The first of four calls has settled and the slice is complete, the second
\* slice is in flight: the meal and the plan wait for it.
C28_Witness ==
    /\ Len(meals) = 1
    /\ Len(meals[1].ingredients) = 4
    /\ planPc = "running"
    /\ <<1, 1>> \in DOMAIN matcherOutcomes
    /\ <<1, 3>> \in DOMAIN matcherOutcomes
    /\ InFlight(1) # {}
    /\ \A c \in InFlight(1) : matcherCalls[c].index = 4

(***************************************************************************)
(* C29: source, confidence and sign of an ingredient result.               *)
(***************************************************************************)
\* The amounts of the candidate the matcher returned for ingredient k of meal
\* m are not negative; so also when it returned none.
AmountsNonNegative(m, k) ==
    <<m, k>> \in DOMAIN matcherOutcomes /\ matcherOutcomes[<<m, k>>].kind = "food" =>
        LET foodNutrients == matcherOutcomes[<<m, k>>].food.foodNutrients
        IN  \A n \in 1..Len(foodNutrients) : ~RLess(foodNutrients[n].value, RZero)

\* A number that is not negative (and not NaN).
NonNegative(x) ==
    x # NaN /\ ~RLess(x, RZero)

\* C29: in every IngredientNutrition returned by getIngredientNutrition the
\* source is fallback exactly when the confidence is low and the database
\* exactly when the confidence is high or medium, and the four nutrition fields
\* are non-negative whenever the amounts of the database are.
C29_SourceMatchesConfidence ==
    \A m \in 1..Len(meals) :
        \A k \in 1..Len(meals[m].ingredients) :
            HasResult(m, k) =>
                LET result == ResultOf(m, k)
                IN  /\ result.source \in {"fallback", "usda"}
                    /\ result.source = "fallback" <=> result.confidence = "low"
                    /\ result.source = "usda" <=> result.confidence \in {"high", "medium"}
                    /\ AmountsNonNegative(m, k) =>
                           \A f \in MacroNames : NonNegative(result.nutrition[f])

\* Three eggs matched with butter, whose score is 50: a database result of
\* confidence medium with positive calories.
C29_Witness ==
    /\ Len(meals) = 1
    /\ meals[1].ingredients = <<L_3_eggs>>
    /\ HasResult(1, 1)
    /\ matcherOutcomes[<<1, 1>>] = FoodOutcome(Food_butter)
    /\ ResultOf(1, 1).source = "usda"
    /\ ResultOf(1, 1).confidence = "medium"
    /\ RLess(RZero, ResultOf(1, 1).nutrition.calories)

====
